---- MODULE Spec2Model ----
(***************************************************************************)
(* Model of the movement-detection engine of the TSA / Polymarket bot:     *)
(*   src/src/movement_detector.py  OutcomeState, MovementDetector           *)
(*   src/src/movement_bot.py       MovementBot (polling controller)         *)
(*   src/src/ws_movement_bot.py    WebSocketMovementBot (push-feed)         *)
(*                                                                         *)
(* Numbers.  Prices are exact decimals in hundredths of a dollar (0.10 is  *)
(* 10).  A z-score is kept exactly as sgn * sqrt(num / den), so that every *)
(* comparison the code makes on it is decided without rounding.  Money is  *)
(* fixed point in 1/10000 dollar ($1 is 10000), products rounded down.     *)
(* Binary floating-point rounding of the Python floats is not modelled.    *)
(***************************************************************************)
EXTENDS Integers, Sequences, FiniteSets, TLC

VARIABLES
    cfg,                 \* Settings / MovementDetector constructor arguments
    mode,                \* which program runs: "detector" | "poll" | "ws" | "scenario"
                         \*   | "outcome" (one OutcomeState driven directly)
                         \*   | "parse" (parse_scale_in_pcts on a string)
    detectors,           \* _market_detectors: slug -> MovementDetector fields
    budget_remaining,    \* _budget_remaining
    token_id_to_outcome, \* WebSocketMovementBot._token_id_to_outcome
    token_id_to_slug,    \* WebSocketMovementBot._token_id_to_slug
    current_markets,     \* _current_markets (sequence of slugs)
    was_in_window,       \* local was_in_window of run()
    ws_should_run,       \* _ws_should_run
    ws_open,             \* the feed connection is open and subscribed (_ws set)
    running,             \* _running
    exited,              \* run() has left its main loop
    clock_open,          \* what _in_monitor_window() returns at this instant
    feed_task,           \* _run_websocket: where it stands (pos), its local
                         \*   delay, and (history) the sleeps since the
                         \*   delay was last reset and the last one's length
    poll_idx,            \* polling loop: 0 at loop top, k when market k is next
    windows,             \* number of monitoring windows started so far (bounded)
    update_count,        \* _update_count
    siglog,              \* history: slug -> signals emitted since creation/reset
    orders,              \* history: summary of the orders of the current window
    last,                \* history: what the last operation did
    ticks                \* number of quotes/ticks processed so far (bounded)

vars == <<cfg, mode, detectors, budget_remaining, token_id_to_outcome,
          token_id_to_slug, current_markets, was_in_window, ws_should_run,
          ws_open, running, exited, clock_open, feed_task, poll_idx, windows, update_count, siglog,
          orders, last, ticks>>

----------------------------------------------------------------------------
(* Bounds of the model *)

\* number of quotes / ticks a behaviour processes
MaxTicks == 5
\* number of window starts a behaviour of a controller goes through
MaxWindows == 2
\* number of polling passes / accepted feed messages of a controller
MaxBotTicks == 4

\* None of Python, for an optional price and an optional outcome name
NoPrice == 0 - 1
NoOutcome == "<None>"

\* deque(maxlen=60)
HistoryMaxLen == 60
\* len(self.price_history) < 5
MinObservations == 5

Min(a, b) == IF a < b THEN a ELSE b
Abs(a) == IF a < 0 THEN 0 - a ELSE a

RECURSIVE GCD(_, _)
GCD(a, b) == IF b = 0 THEN a ELSE GCD(b, a % b)

RECURSIVE SumSeq(_)
SumSeq(s) == IF s = <<>> THEN 0 ELSE Head(s) + SumSeq(Tail(s))

RECURSIVE SumSq(_)
SumSq(s) == IF s = <<>> THEN 0 ELSE Head(s) * Head(s) + SumSq(Tail(s))

----------------------------------------------------------------------------
(* z-scores as exact values: sgn * sqrt(num / den), or None *)

ZNone == [none |-> TRUE, sgn |-> 0, num |-> 0, den |-> 1]

ZVal(sgn, num, den) ==
    IF num = 0 \/ sgn = 0
    THEN [none |-> FALSE, sgn |-> 0, num |-> 0, den |-> 1]
    ELSE LET g == GCD(num, den)
         IN  [none |-> FALSE, sgn |-> sgn, num |-> num \div g, den |-> den \div g]

\* a > b for two numeric z-scores
ZGt(a, b) ==
    CASE a.sgn > 0 /\ b.sgn > 0 -> a.num * b.den > b.num * a.den
      [] a.sgn > 0 /\ b.sgn <= 0 -> TRUE
      [] a.sgn = 0 -> b.sgn < 0
      [] a.sgn < 0 -> b.sgn < 0 /\ a.num * b.den < b.num * a.den

ZLt(a, b) == ZGt(b, a)

\* the float t/10 as a z-score value (thresholds are given in tenths)
ZTenths(t) == ZVal(IF t > 0 THEN 1 ELSE IF t < 0 THEN 0 - 1 ELSE 0, t * t, 100)

ZZero == ZVal(0, 0, 1)
ZSaturated(sgn) == ZVal(sgn, 100, 1)

----------------------------------------------------------------------------
(* OutcomeState *)

\* mutant: a deque without maxlen
DequeAppend_Unbounded(h, x) == Append(h, x)

\* deque.append on a deque(maxlen=60): the oldest entry is evicted when full
DequeAppend(h, x) ==
    IF Len(h) >= HistoryMaxLen THEN Append(Tail(h), x) ELSE Append(h, x)

\* mutant: a rolling baseline, moved to the price the quote replaces
update_price_Rolling(state, price) ==
    [state EXCEPT !.baseline_price = state.current_price,
                  !.current_price = price,
                  !.price_history = DequeAppend(state.price_history, price)]

\* OutcomeState.update_price (lines 38-41)
update_price(state, price) ==
    [state EXCEPT !.current_price = price,
                  !.price_history = DequeAppend(state.price_history, price)]

\* mutant: the history is not cleared before the baseline is appended
OutcomeState_set_baseline_KeepsHistory(state, price) ==
    [state EXCEPT !.baseline_price = price,
                  !.price_history = DequeAppend(state.price_history, price),
                  !.current_price = price,
                  !.triggered = FALSE,
                  !.trigger_count = 0]

\* OutcomeState.set_baseline (lines 43-50)
OutcomeState_set_baseline(state, price) ==
    [state EXCEPT !.baseline_price = price,
                  !.price_history = <<price>>,
                  !.current_price = price,
                  !.triggered = FALSE,
                  !.trigger_count = 0]

NewOutcomeState(name, token) ==
    [outcome_name |-> name, token_id |-> token, price_history |-> <<>>,
     baseline_price |-> NoPrice, current_price |-> NoPrice,
     triggered |-> FALSE, trigger_count |-> 0]

\* n(n-1) * sample variance of the history, in hundredths squared
VarNumer(h) == Len(h) * SumSq(h) - SumSeq(h) * SumSeq(h)

\* mutant: the near-zero guard is missing
StdevBelowEps_Never(h) == FALSE

\* mutant: the deviation is compared with 0.1
StdevBelowEps_Tenth(h) == VarNumer(h) < 100 * Len(h) * (Len(h) - 1)

\* statistics.stdev(h) < 0.001
StdevBelowEps(h) == 100 * VarNumer(h) < Len(h) * (Len(h) - 1)

\* mutant: no minimum number of observations
TooFewObservations_Never(h) == FALSE

\* len(self.price_history) < 5
TooFewObservations(h) == Len(h) < MinObservations

get_zscore(state) ==
    IF state.baseline_price = NoPrice \/ state.current_price = NoPrice
    THEN ZNone
    ELSE IF TooFewObservations(state.price_history)
    THEN ZNone
    ELSE LET h == state.price_history
             change == state.current_price - state.baseline_price
             sg == IF change > 0 THEN 1 ELSE IF change < 0 THEN 0 - 1 ELSE 0
         IN  IF StdevBelowEps(h)
             THEN IF Abs(change) > 5
                  THEN ZSaturated(IF change > 0 THEN 1 ELSE 0 - 1)
                  ELSE ZZero
             ELSE ZVal(sg, change * change * Len(h) * (Len(h) - 1), VarNumer(h))

get_price_change(state) == state.current_price - state.baseline_price

----------------------------------------------------------------------------
(* Markets: the outcome lists that market discovery hands to the core.     *)
(* Both markets have an outcome named "X"; token ids are unique.           *)

Slugs == {"fri", "sat"}

MarketOutcomes(slug) ==
    IF slug = "fri"
    THEN << [outcome |-> "X", token_id |-> "fri_X"],
            [outcome |-> "Y", token_id |-> "fri_Y"] >>
    ELSE << [outcome |-> "X", token_id |-> "sat_X"] >>

Tokens == {"fri_X", "fri_Y", "sat_X"}

\* best-ask quotes a tick can carry, in hundredths of a dollar
Prices == {30, 60}
\* best asks seen when the baseline is taken (NoPrice: the book has no asks)
BaselineQuotes == {10, NoPrice}

\* one best ask (or none) per outcome of the market, in list order
QuoteVectors(slug, quotes) == [1..Len(MarketOutcomes(slug)) -> quotes]

----------------------------------------------------------------------------
(* MovementDetector *)

NewDetector ==
    [outcomes |-> <<>>, baseline_set |-> FALSE, total_signals |-> 0,
     budget_spent_pct |-> 0, locked_outcome |-> NoOutcome]

\* index of the OutcomeState stored under a name in self.outcomes, 0 if absent
IndexOf(outs, name) ==
    IF \E i \in 1..Len(outs) : outs[i].outcome_name = name
    THEN CHOOSE i \in 1..Len(outs) : outs[i].outcome_name = name
    ELSE 0

\* self.outcomes[name] = state on an insertion-ordered dict
DictSet(outs, state) ==
    LET i == IndexOf(outs, state.outcome_name)
    IN  IF i = 0 THEN Append(outs, state) ELSE [outs EXCEPT ![i] = state]

\* a reset that forgets to release the lock
reset_KeepsLock(det) ==
    [det EXCEPT !.outcomes = <<>>, !.baseline_set = FALSE, !.total_signals = 0,
                !.budget_spent_pct = 0]

reset(det) ==
    [det EXCEPT !.outcomes = <<>>, !.baseline_set = FALSE, !.total_signals = 0,
                !.budget_spent_pct = 0, !.locked_outcome = NoOutcome]

RECURSIVE BaselineFrom(_, _, _, _)
BaselineFrom(outs, mouts, quotes, i) ==
    IF i > Len(mouts) THEN outs
    ELSE IF quotes[i] = NoPrice
    THEN BaselineFrom(outs, mouts, quotes, i + 1)
    ELSE BaselineFrom(
             DictSet(outs, OutcomeState_set_baseline(
                               NewOutcomeState(mouts[i].outcome, mouts[i].token_id),
                               quotes[i])),
             mouts, quotes, i + 1)

set_baseline(det, mouts, quotes) ==
    [det EXCEPT !.baseline_set = TRUE,
                !.outcomes = BaselineFrom(det.outcomes, mouts, quotes, 1)]

MakeSignal(state, z, trigger_num, budget_pct) ==
    [outcome_name |-> state.outcome_name, token_id |-> state.token_id,
     current_price |-> state.current_price,
     baseline_price |-> state.baseline_price,
     zscore |-> z, price_change |-> get_price_change(state),
     trigger_number |-> trigger_num, budget_pct |-> budget_pct]

\* a trigger policy without the price ceiling
PassesGates_NoCeiling(state, c) ==
    LET z == get_zscore(state)
    IN  /\ ~z.none
        /\ ~ZLt(z, ZTenths(c.zscore_threshold))
        /\ ~(get_price_change(state) < c.min_price_change)

\* the three gates on the quote itself (lines 165-173)
PassesGates(state, c) ==
    LET z == get_zscore(state)
    IN  /\ ~z.none
        /\ ~ZLt(z, ZTenths(c.zscore_threshold))
        /\ ~(get_price_change(state) < c.min_price_change)
        /\ ~(state.current_price > c.max_buy_price)

\* a detector that forgets the lock
LockAllows_NoLock(det, state) == TRUE

\* the lock (lines 174-176)
LockAllows(det, state) ==
    ~(det.locked_outcome # NoOutcome /\ det.locked_outcome # state.outcome_name)

\* an off-by-one in the schedule bound: the last slot is never used
SlotAvailable_OffByOne(state, c) == ~(state.trigger_count + 1 >= Len(c.scale_in_pcts))

\* room left in the scale-in schedule (lines 177-179)
SlotAvailable(state, c) == ~(state.trigger_count + 1 > Len(c.scale_in_pcts))

\* a schedule lookup that always takes the first entry
ScheduleEntry_First(c, trigger_num) == c.scale_in_pcts[1]

\* self.scale_in_pcts[trigger_num - 1] (line 180; sequences here start at 1)
ScheduleEntry(c, trigger_num) == c.scale_in_pcts[trigger_num]

\* a check that takes the scale-in slot before it looks at the lock
check_trigger_CountsFirst(det, i, c) ==
    LET state == det.outcomes[i]
        trigger_num == state.trigger_count + 1
        st2 == [state EXCEPT !.triggered = TRUE, !.trigger_count = trigger_num]
    IN  IF ~PassesGates(state, c) THEN [det |-> det, sig |-> <<>>]
        ELSE IF ~SlotAvailable(state, c) THEN [det |-> det, sig |-> <<>>]
        ELSE IF ~LockAllows(det, state)
        THEN [det |-> [det EXCEPT !.outcomes[i] = st2], sig |-> <<>>]
        ELSE LET budget_pct == ScheduleEntry(c, trigger_num)
             IN  [det |-> [det EXCEPT
                              !.outcomes[i] = st2,
                              !.budget_spent_pct = @ + budget_pct,
                              !.locked_outcome =
                                  IF @ = NoOutcome THEN state.outcome_name ELSE @],
                  sig |-> << MakeSignal(st2, get_zscore(state), trigger_num,
                                        budget_pct) >>]

\* mutant: an accepted trigger counts and spends but leaves the lock alone
check_trigger_LeavesLock(det, i, c) ==
    LET state == det.outcomes[i]
        trigger_num == state.trigger_count + 1
    IN  IF ~PassesGates(state, c) THEN [det |-> det, sig |-> <<>>]
        ELSE IF ~LockAllows(det, state) THEN [det |-> det, sig |-> <<>>]
        ELSE IF ~SlotAvailable(state, c) THEN [det |-> det, sig |-> <<>>]
        ELSE LET budget_pct == ScheduleEntry(c, trigger_num)
                 st2 == [state EXCEPT !.triggered = TRUE,
                                      !.trigger_count = trigger_num]
             IN  [det |-> [det EXCEPT
                              !.outcomes[i] = st2,
                              !.budget_spent_pct = @ + budget_pct],
                  sig |-> << MakeSignal(st2, get_zscore(state), trigger_num,
                                        budget_pct) >>]

\* _check_trigger on the state at index i: the detector afterwards and the
\* signal returned (a sequence of length 0 or 1)
check_trigger(det, i, c) ==
    LET state == det.outcomes[i]
        trigger_num == state.trigger_count + 1
    IN  IF ~PassesGates(state, c) THEN [det |-> det, sig |-> <<>>]
        ELSE IF ~LockAllows(det, state) THEN [det |-> det, sig |-> <<>>]
        ELSE IF ~SlotAvailable(state, c) THEN [det |-> det, sig |-> <<>>]
        ELSE LET budget_pct == ScheduleEntry(c, trigger_num)
                 st2 == [state EXCEPT !.triggered = TRUE,
                                      !.trigger_count = trigger_num]
             IN  [det |-> [det EXCEPT
                              !.outcomes[i] = st2,
                              !.budget_spent_pct = @ + budget_pct,
                              !.locked_outcome =
                                  IF @ = NoOutcome THEN state.outcome_name ELSE @],
                  sig |-> << MakeSignal(st2, get_zscore(state), trigger_num,
                                        budget_pct) >>]

\* first pass of update_prices (lines 137-144)
RECURSIVE UpdateAll(_, _, _, _)
UpdateAll(outs, mouts, quotes, i) ==
    IF i > Len(mouts) THEN outs
    ELSE LET k == IndexOf(outs, mouts[i].outcome)
         IN  IF k = 0 \/ quotes[i] = NoPrice
             THEN UpdateAll(outs, mouts, quotes, i + 1)
             ELSE UpdateAll([outs EXCEPT ![k] = update_price(outs[k], quotes[i])],
                            mouts, quotes, i + 1)

\* second pass of update_prices (lines 147-153): index of best_state, 0 if None
RECURSIVE BestFrom(_, _, _, _)
BestFrom(outs, i, best, best_zscore) ==
    IF i > Len(outs) THEN best
    ELSE LET z == get_zscore(outs[i])
         IN  IF ~z.none /\ ZGt(z, best_zscore)
             THEN BestFrom(outs, i + 1, i, z)
             ELSE BestFrom(outs, i + 1, best, best_zscore)

\* a detector that always checks the first tracked outcome
BestState_First(outs) == IF Len(outs) > 0 THEN 1 ELSE 0

\* a second pass written with >=: the last of the tied outcomes wins
BestState_LastOfTies(outs) ==
    LET top == { i \in 1..Len(outs) :
                   /\ ~get_zscore(outs[i]).none
                   /\ get_zscore(outs[i]).sgn > 0
                   /\ \A j \in 1..Len(outs) :
                        get_zscore(outs[j]).none
                        \/ ~ZGt(get_zscore(outs[j]), get_zscore(outs[i])) }
    IN  IF top = {} THEN 0 ELSE CHOOSE i \in top : \A j \in top : j <= i

BestState(outs) == BestFrom(outs, 1, 0, ZZero)

\* indices of the tracked outcomes whose z-score is positive and not below
\* that of any other tracked outcome
TopMovers(outs) ==
    { i \in 1..Len(outs) :
        /\ ~get_zscore(outs[i]).none
        /\ get_zscore(outs[i]).sgn > 0
        /\ \A j \in (1..Len(outs)) \ {i} :
             get_zscore(outs[j]).none
             \/ ~ZGt(get_zscore(outs[j]), get_zscore(outs[i])) }

\* get_zscore returns the same double for both states: it is computed from
\* the same baseline, current price and history, or it is the constant 10.0
\* or 0.0 in both
SameDouble(a, b) ==
    \/ /\ a.baseline_price = b.baseline_price
       /\ a.current_price = b.current_price
       /\ a.price_history = b.price_history
    \/ /\ StdevBelowEps(a.price_history)
       /\ StdevBelowEps(b.price_history)

\* what best_state can be after the second pass. The z-scores are doubles:
\* of two outcomes whose quotients are equal as reals but come from
\* different histories, rounding decides which double is the larger, and
\* `zscore > best_zscore` keeps the first outcome of the largest double.
BestChoices(outs) ==
    LET b == BestState(outs)
    IN  IF b = 0 THEN {0}
        ELSE {b} \cup
             { i \in TopMovers(outs) :
                 /\ b \in TopMovers(outs)
                 /\ \A j \in TopMovers(outs) :
                      j < i => ~SameDouble(outs[j], outs[i]) }

\* mutant: when the best mover is turned down, the locked outcome is checked
TriggerBest_ThenLocked(d1, b, c) ==
    IF b = 0 THEN [det |-> d1, sig |-> <<>>]
    ELSE LET r == check_trigger(d1, b, c)
             a == IndexOf(d1.outcomes, d1.locked_outcome)
             r2 == IF r.sig = <<>> /\ a # 0 THEN check_trigger(d1, a, c) ELSE r
         IN  IF r2.sig # <<>>
             THEN [det |-> [r2.det EXCEPT !.total_signals = @ + 1],
                   sig |-> r2.sig]
             ELSE r2

\* lines 155-162 of update_prices, for a given best_state
TriggerBest(d1, b, c) ==
    IF b = 0 THEN [det |-> d1, sig |-> <<>>]
    ELSE LET r == check_trigger(d1, b, c)
         IN  IF r.sig # <<>>
             THEN [det |-> [r.det EXCEPT !.total_signals = @ + 1],
                   sig |-> r.sig]
             ELSE r

\* the results update_prices can have (one, unless rounding decides a tie)
update_prices(det, mouts, quotes, c) ==
    IF ~det.baseline_set THEN { [det |-> det, sig |-> <<>>] }
    ELSE LET d1 == [det EXCEPT !.outcomes = UpdateAll(det.outcomes, mouts, quotes, 1)]
         IN  { TriggerBest(d1, b, c) : b \in BestChoices(d1.outcomes) }

\* a feed that starts tracking an outcome it has no state for
feed_price_Tracks(det, outcome_name, price, c) ==
    LET k == IndexOf(det.outcomes, outcome_name)
        d0 == IF k # 0 THEN det
              ELSE [det EXCEPT !.outcomes =
                       DictSet(@, OutcomeState_set_baseline(
                                      NewOutcomeState(outcome_name, outcome_name), price))]
        j == IndexOf(d0.outcomes, outcome_name)
        d1 == [d0 EXCEPT !.outcomes[j] = update_price(@, price)]
        r == check_trigger(d1, j, c)
    IN  IF r.sig # <<>>
        THEN [det |-> [r.det EXCEPT !.total_signals = @ + 1], sig |-> r.sig]
        ELSE r

\* the detector part of _feed_price_to_detector (lines 316-323): one quote for
\* one outcome, then a trigger check on that outcome alone
feed_price(det, outcome_name, price, c) ==
    LET k == IndexOf(det.outcomes, outcome_name)
    IN  IF k = 0 THEN [det |-> det, sig |-> <<>>]
        ELSE LET d1 == [det EXCEPT !.outcomes[k] = update_price(@, price)]
                 r == check_trigger(d1, k, c)
             IN  IF r.sig # <<>>
                 THEN [det |-> [r.det EXCEPT !.total_signals = @ + 1],
                       sig |-> r.sig]
                 ELSE r

----------------------------------------------------------------------------
(* Settings *)

\* scale-in schedules (percent of the remaining budget per trigger)
Schedules == { <<50, 30, 20>>, <<100>> }

\* (zscore_threshold in tenths, min_price_change, max_buy_price in hundredths)
Thresholds == { <<15, 5, 50>>, <<15, 25, 95>> }

OneDollar == 10000

\* polymarket: the exchange client is connected (self.polymarket is not None)
MakeSettings(t, sched, size, dry) ==
    [zscore_threshold |-> t[1], min_price_change |-> t[2], max_buy_price |-> t[3],
     scale_in_pcts |-> sched, max_trade_size_usd |-> size, dry_run |-> dry,
     polymarket |-> TRUE]

\* what the last operation did: the signals it got from detectors (sig) and
\* what _execute_signal did with each of them (execs)
Idle == [op |-> "init", slug |-> "", name |-> "", sig |-> <<>>, execs |-> <<>>,
         markets |-> {}, price |-> NoPrice, pcts |-> <<>>, quotes |-> <<>>]

EmptyLog == [s \in Slugs |-> <<>>]

\* the orders of a window: the total and the markets of the successful ones,
\* and whether one has failed
NoOrders == [spent |-> 0, slugs |-> {}, failed |-> FALSE]

\* RECONNECT_DELAY, MAX_RECONNECT_DELAY (seconds)
RECONNECT_DELAY == 1
MAX_RECONNECT_DELAY == 60

\* _run_websocket as it starts: delay = RECONNECT_DELAY (line 376), at its
\* first await; waits counts the sleeps since delay was last set to
\* RECONNECT_DELAY and waited is the length of the last one; ping is where
\* the ping task of the connection stands once there is a connection: in its
\* sleep ("sleep"), waiting for a pong ("pong"), or returned after a timeout
\* ("timed_out") or another exception ("failed")
NewFeedTask ==
    [pos |-> "await", delay |-> RECONNECT_DELAY, waits |-> 0, waited |-> 0,
     ping |-> "sleep"]

\* the variables of the controllers, unused while a detector is driven directly
ControllerIdle ==
    /\ budget_remaining = cfg.max_trade_size_usd
    /\ token_id_to_outcome = <<>>
    /\ token_id_to_slug = <<>>
    /\ current_markets = <<>>
    /\ was_in_window = FALSE
    /\ ws_should_run = FALSE
    /\ ws_open = FALSE
    \* run() raises _running on entry (movement_bot.py 141, ws_movement_bot.py
    \* 439); outside the two controllers there is no main loop
    /\ running = (mode \in {"poll", "ws"})
    /\ exited = FALSE
    /\ clock_open = FALSE
    /\ feed_task = NewFeedTask
    /\ poll_idx = 0
    /\ windows = 0
    /\ update_count = 0
    /\ orders = NoOrders

ControllerUnchanged ==
    UNCHANGED <<budget_remaining, token_id_to_outcome, token_id_to_slug,
                current_markets, was_in_window, ws_should_run, ws_open,
                running, exited, clock_open, feed_task, poll_idx, windows,
                update_count, orders>>

----------------------------------------------------------------------------
(* A MovementDetector driven through its own interface, as the tests and    *)
(* the two controllers drive it: constructed, baselined once, fed quotes    *)
(* through update_prices (polling) or through update_price followed by      *)
(* _check_trigger (push feed), and reset.                                   *)

DetSlug == "fri"

InitDetector ==
    /\ mode = "detector"
    /\ cfg \in { MakeSettings(t, sc, 1000000, TRUE) : t \in Thresholds, sc \in Schedules }
    /\ detectors = [s \in {DetSlug} |-> NewDetector]
    /\ siglog = EmptyLog
    /\ last = Idle
    /\ ticks = 0
    /\ ControllerIdle

DetSetBaseline ==
    /\ mode = "detector"
    /\ ~detectors[DetSlug].baseline_set
    /\ \E quotes \in QuoteVectors(DetSlug, BaselineQuotes) :
         /\ detectors' = [detectors EXCEPT
                             ![DetSlug] = set_baseline(@, MarketOutcomes(DetSlug), quotes)]
         /\ last' = [Idle EXCEPT !.op = "set_baseline", !.slug = DetSlug,
                                 !.quotes = quotes]
    /\ UNCHANGED <<cfg, mode, siglog, ticks>>
    /\ ControllerUnchanged

DetUpdatePrices ==
    /\ mode = "detector"
    /\ ticks < MaxTicks
    /\ \E quotes \in QuoteVectors(DetSlug, Prices \cup {NoPrice}) :
         \E r \in update_prices(detectors[DetSlug], MarketOutcomes(DetSlug), quotes, cfg) :
             /\ detectors' = [detectors EXCEPT ![DetSlug] = r.det]
             /\ siglog' = [siglog EXCEPT ![DetSlug] = @ \o r.sig]
             /\ last' = [Idle EXCEPT !.op = "update_prices", !.slug = DetSlug,
                                     !.sig = r.sig]
    /\ ticks' = ticks + 1
    /\ UNCHANGED <<cfg, mode>>
    /\ ControllerUnchanged

DetFeedPrice ==
    /\ mode = "detector"
    /\ ticks < MaxTicks
    /\ \E i \in 1..Len(MarketOutcomes(DetSlug)), price \in Prices :
         \E r \in { feed_price(detectors[DetSlug], MarketOutcomes(DetSlug)[i].outcome,
                                price, cfg) } :
             /\ detectors' = [detectors EXCEPT ![DetSlug] = r.det]
             /\ siglog' = [siglog EXCEPT ![DetSlug] = @ \o r.sig]
             /\ last' = [Idle EXCEPT !.op = "feed_price", !.slug = DetSlug,
                                     !.name = MarketOutcomes(DetSlug)[i].outcome,
                                     !.sig = r.sig]
    /\ ticks' = ticks + 1
    /\ UNCHANGED <<cfg, mode>>
    /\ ControllerUnchanged

DetReset ==
    /\ mode = "detector"
    /\ detectors[DetSlug].baseline_set
    /\ detectors' = [detectors EXCEPT ![DetSlug] = reset(@)]
    /\ siglog' = [siglog EXCEPT ![DetSlug] = <<>>]
    \* the record of the call keeps the lock the detector held when reset() ran
    /\ last' = [Idle EXCEPT !.op = "reset", !.slug = DetSlug,
                            !.name = detectors[DetSlug].locked_outcome]
    /\ UNCHANGED <<cfg, mode, ticks>>
    /\ ControllerUnchanged

NextDetector == DetSetBaseline \/ DetUpdatePrices \/ DetFeedPrice \/ DetReset

SpecDetector == InitDetector /\ [][NextDetector]_vars

\* number of baselines a behaviour takes on a detector that already has one
MaxRebaselines == 1

\* set_baseline is a public method with no test of baseline_set: a caller
\* can take a new baseline on a detector that already has one, without
\* reset() in between. windows counts these calls.
DetRebaseline ==
    /\ mode = "detector"
    /\ detectors[DetSlug].baseline_set
    /\ windows < MaxRebaselines
    /\ \E quotes \in QuoteVectors(DetSlug, BaselineQuotes) :
         /\ detectors' = [detectors EXCEPT
                             ![DetSlug] = set_baseline(@, MarketOutcomes(DetSlug), quotes)]
         /\ last' = [Idle EXCEPT !.op = "set_baseline", !.slug = DetSlug,
                                 !.quotes = quotes]
    /\ windows' = windows + 1
    /\ UNCHANGED <<feed_task, cfg, mode, siglog, ticks, budget_remaining,
                   token_id_to_outcome,
                   token_id_to_slug, current_markets, was_in_window,
                   ws_should_run, ws_open, running, exited, clock_open,
                   poll_idx, update_count, orders>>

NextRebaseline == NextDetector \/ DetRebaseline

\* one setting is enough here: threshold 1.5, min change 0.05, ceiling 0.50,
\* schedule 50/30/20
InitRebaseline ==
    /\ InitDetector
    /\ cfg = MakeSettings(<<15, 5, 50>>, <<50, 30, 20>>, 1000000, TRUE)

SpecRebaseline == InitRebaseline /\ [][NextRebaseline]_vars

----------------------------------------------------------------------------
(* The detector fed with order books as they come: _get_best_ask turns the *)
(* book of an outcome into a best ask or None.                             *)

\* the price of the first ask level as the book carries it: absent (a dict
\* without "price" and "p"), something float() rejects, or a number
RawPrices ==
    { [kind |-> "absent", value |-> 0], [kind |-> "garbled", value |-> 0],
      [kind |-> "number", value |-> 0], [kind |-> "number", value |-> 30] }

\* the order book of an outcome: None, or its ask levels (the first one)
RawBooks ==
    { [present |-> FALSE, asks |-> <<>>], [present |-> TRUE, asks |-> <<>>] }
    \cup { [present |-> TRUE, asks |-> <<rp>>] : rp \in RawPrices }

\* MovementDetector._get_best_ask (lines 197-210): a missing price reads as
\* the default 0 of dict.get, and whatever float() raises gives None
_get_best_ask(order_book) ==
    IF ~order_book.present THEN NoPrice
    ELSE IF order_book.asks = <<>> THEN NoPrice
    ELSE IF order_book.asks[1].kind = "garbled" THEN NoPrice
    ELSE IF order_book.asks[1].kind = "absent" THEN 0
    ELSE order_book.asks[1].value

\* one order book per outcome of the market, in list order
BookVectors(slug) == [1..Len(MarketOutcomes(slug)) -> RawBooks]

\* the best asks the detector reads from the books
BestAsks(books) == [i \in DOMAIN books |-> _get_best_ask(books[i])]

\* number of update_prices calls with order books
MaxBookTicks == 2

\* set_baseline(market_outcomes) (lines 110-122)
DetBaselineBooks ==
    /\ mode = "detector"
    /\ ~detectors[DetSlug].baseline_set
    /\ \E books \in BookVectors(DetSlug) :
         /\ detectors' = [detectors EXCEPT
               ![DetSlug] = set_baseline(@, MarketOutcomes(DetSlug),
                                         BestAsks(books))]
         /\ last' = [Idle EXCEPT !.op = "set_baseline", !.slug = DetSlug,
                                 !.quotes = books]
    /\ UNCHANGED <<cfg, mode, siglog, ticks>>
    /\ ControllerUnchanged

\* update_prices(market_outcomes) (lines 124-162)
DetUpdateBooks ==
    /\ mode = "detector"
    /\ ticks < MaxBookTicks
    /\ \E books \in BookVectors(DetSlug) :
         \E r \in update_prices(detectors[DetSlug], MarketOutcomes(DetSlug),
                                BestAsks(books), cfg) :
             /\ detectors' = [detectors EXCEPT ![DetSlug] = r.det]
             /\ siglog' = [siglog EXCEPT ![DetSlug] = @ \o r.sig]
             /\ last' = [Idle EXCEPT !.op = "update_prices", !.slug = DetSlug,
                                     !.sig = r.sig, !.quotes = books]
    /\ ticks' = ticks + 1
    /\ UNCHANGED <<cfg, mode>>
    /\ ControllerUnchanged

NextBooks == DetBaselineBooks \/ DetUpdateBooks

SpecBooks == InitRebaseline /\ [][NextBooks]_vars

----------------------------------------------------------------------------
(* Scenario C of the tests (test_scale_in_behavior): one outcome baselined  *)
(* at 0.10, threshold 1.5, min change 0.03, schedule 50/30/20, fed the      *)
(* scripted prices through update_prices, then any further rise.            *)

ScenarioSlug == "sat"
ScenarioC == <<10, 12, 15, 20, 25, 30, 35, 40>>
\* prices of the further rise after the script
FurtherPrices == {40, 45, 50, 60, 70, 80, 90}
\* number of ticks fed after the script
MaxFurther == 4

InitScenario ==
    /\ mode = "scenario"
    /\ cfg = MakeSettings(<<15, 3, 95>>, <<50, 30, 20>>, 1000000, TRUE)
    /\ detectors = [s \in {ScenarioSlug} |->
                       set_baseline(NewDetector, MarketOutcomes(ScenarioSlug),
                                    [i \in {1} |-> 10])]
    /\ siglog = EmptyLog
    /\ last = Idle
    /\ ticks = 0
    /\ ControllerIdle

ScenarioFeed(price) ==
    \E r \in update_prices(detectors[ScenarioSlug], MarketOutcomes(ScenarioSlug),
                           [i \in {1} |-> price], cfg) :
        /\ detectors' = [detectors EXCEPT ![ScenarioSlug] = r.det]
        /\ siglog' = [siglog EXCEPT ![ScenarioSlug] = @ \o r.sig]
        /\ last' = [Idle EXCEPT !.op = "update_prices", !.slug = ScenarioSlug,
                                !.sig = r.sig]
        /\ ticks' = ticks + 1
        /\ UNCHANGED <<cfg, mode>>
        /\ ControllerUnchanged

ScenarioScript ==
    /\ mode = "scenario"
    /\ ticks < Len(ScenarioC)
    /\ ScenarioFeed(ScenarioC[ticks + 1])

ScenarioFurtherRise ==
    /\ mode = "scenario"
    /\ ticks >= Len(ScenarioC)
    /\ ticks < Len(ScenarioC) + MaxFurther
    /\ \E price \in FurtherPrices :
         /\ price >= detectors[ScenarioSlug].outcomes[1].current_price
         /\ ScenarioFeed(price)

NextScenario == ScenarioScript \/ ScenarioFurtherRise

SpecScenario == InitScenario /\ [][NextScenario]_vars

----------------------------------------------------------------------------
(* One OutcomeState driven through its own methods, as the unit tests do:   *)
(* set_baseline, then update_price any number of times.  It is held as the  *)
(* only outcome of an otherwise unused detector record.  After a baseline   *)
(* the first MaxFree prices are arbitrary; the prices after them repeat the *)
(* last one, which is how the history becomes full and flat.                *)

OsSlug == "fri"
OsPrices == {10, 14, 60}
\* number of arbitrary prices after a baseline
MaxFree == 4
\* number of update_price calls beyond the capacity of the history
MaxOverflow == 2

\* the OutcomeState under test
Os == detectors[OsSlug].outcomes[1]

InitOutcome ==
    /\ mode = "outcome"
    /\ cfg = MakeSettings(<<15, 5, 95>>, <<50, 30, 20>>, 1000000, TRUE)
    /\ detectors = [s \in {OsSlug} |->
                       [NewDetector EXCEPT
                           !.outcomes = << NewOutcomeState("X", "fri_X") >>]]
    /\ siglog = EmptyLog
    /\ last = Idle
    /\ ticks = 0
    /\ ControllerIdle

OsStep(op, price, state) ==
    /\ detectors' = [detectors EXCEPT ![OsSlug].outcomes[1] = state]
    /\ last' = [Idle EXCEPT !.op = op, !.slug = OsSlug, !.price = price]
    /\ UNCHANGED <<cfg, mode, siglog>>
    /\ ControllerUnchanged

\* OutcomeState.set_baseline(price)
OsSetBaseline ==
    /\ mode = "outcome"
    /\ \E price \in OsPrices :
         OsStep("set_baseline", price, OutcomeState_set_baseline(Os, price))
    /\ ticks' = 0

\* OutcomeState.update_price(price), any price
OsUpdatePrice ==
    /\ mode = "outcome"
    /\ Os.baseline_price # NoPrice
    /\ ticks < MaxFree
    /\ \E price \in OsPrices : OsStep("update_price", price, update_price(Os, price))
    /\ ticks' = ticks + 1

\* OutcomeState.update_price(price), the price of the quote before
OsRepeatPrice ==
    /\ mode = "outcome"
    /\ Os.baseline_price # NoPrice
    /\ ticks >= MaxFree
    /\ ticks < HistoryMaxLen + MaxOverflow
    /\ OsStep("update_price", Os.current_price, update_price(Os, Os.current_price))
    /\ ticks' = ticks + 1

NextOutcome == OsSetBaseline \/ OsUpdatePrice \/ OsRepeatPrice

SpecOutcome == InitOutcome /\ [][NextOutcome]_vars

\* the detector's spent share up to which triggers are taken: it is never
\* lowered by OutcomeState.set_baseline, so it grows with every new baseline
MaxSpentPct == 100

\* _check_trigger(state) accepts the outcome's move: the state's triggered
\* and trigger_count and the detector's lock and spent share are written
\* (checked while the prices are still arbitrary)
OsTrigger ==
    /\ mode = "outcome"
    /\ ticks <= MaxFree
    /\ detectors[OsSlug].budget_spent_pct < MaxSpentPct
    /\ \E r \in { check_trigger(detectors[OsSlug], 1, cfg) } :
         /\ r.sig # <<>>
         /\ detectors' = [detectors EXCEPT ![OsSlug] = r.det]
         /\ last' = [Idle EXCEPT !.op = "check_trigger", !.slug = OsSlug,
                                 !.sig = r.sig]
    /\ UNCHANGED <<cfg, mode, siglog, ticks>>
    /\ ControllerUnchanged

NextOutcomeTrigger == NextOutcome \/ OsTrigger

\* one OutcomeState through its two methods and the trigger check
SpecOutcomeTrigger == InitOutcome /\ [][NextOutcomeTrigger]_vars

----------------------------------------------------------------------------
(* Properties of OutcomeState *)

\* observations recorded since the last set_baseline, the baseline included
Observations == IF Os.baseline_price = NoPrice THEN 0 ELSE ticks + 1

\* C11: get_zscore() is None while fewer than 5 observations have been
\* recorded since the last set_baseline (the baseline counting as the first),
\* whatever the prices, and is a number once 5 are recorded.
C11_MinObservations ==
    mode = "outcome" =>
        /\ Observations < 5 => get_zscore(Os) = ZNone
        /\ Observations >= 5 => ~get_zscore(Os).none

\* C11 witness: the fifth observation has just been recorded, with prices
\* that differ, and the z-score is a positive number
C11_Witness ==
    /\ mode = "outcome"
    /\ last.op = "update_price"
    /\ Observations = 5
    /\ Os.price_history[1] # Os.price_history[2]
    /\ ~get_zscore(Os).none
    /\ get_zscore(Os).sgn > 0

\* the deviation of the history is below 0.001: n(n-1)s^2 < n(n-1) / 100,
\* prices in hundredths
NearZeroDeviation(h) ==
    100 * (Len(h) * SumSq(h) - SumSeq(h) * SumSeq(h)) < Len(h) * (Len(h) - 1)

\* C12: with at least 5 observations and a deviation below 0.001,
\* get_zscore() is exactly +10 or -10 with the sign of current - baseline
\* when |current - baseline| > 0.05, and 0 otherwise.
C12_Saturation ==
    (/\ mode = "outcome"
     /\ Os.baseline_price # NoPrice
     /\ Len(Os.price_history) >= 5
     /\ NearZeroDeviation(Os.price_history)) =>
        LET change == Os.current_price - Os.baseline_price
            z == get_zscore(Os)
        IN  /\ change > 5 => z = [none |-> FALSE, sgn |-> 1, num |-> 100, den |-> 1]
            /\ change < 0 - 5 =>
                   z = [none |-> FALSE, sgn |-> 0 - 1, num |-> 100, den |-> 1]
            /\ (change <= 5 /\ change >= 0 - 5) =>
                   z = [none |-> FALSE, sgn |-> 0, num |-> 0, den |-> 1]

\* C12 witness: the baseline 0.10 has left a history that holds 0.60 sixty
\* times, and the z-score is +10
C12_Witness ==
    /\ mode = "outcome"
    /\ Os.baseline_price = 10
    /\ Os.current_price = 60
    /\ Len(Os.price_history) = HistoryMaxLen
    /\ NearZeroDeviation(Os.price_history)
    /\ get_zscore(Os) = ZSaturated(1)

\* C13: the history never holds more than 60 prices; update_price appends
\* the new price, and when the history is full the oldest price leaves, so
\* the history is the most recent prices in arrival order.
C13_HistoryFifo ==
    [][ (mode = "outcome" /\ last'.op = "update_price") =>
          LET h == Os.price_history
              h1 == detectors'[OsSlug].outcomes[1].price_history
          IN  /\ Len(h1) <= 60
              /\ Len(h) < 60 => h1 = Append(h, last'.price)
              /\ Len(h) >= 60 => h1 = Append(Tail(h), last'.price) ]_vars

\* C13 witness: 62 prices have been recorded (0.10, one more, 0.60, 0.14, ...);
\* the history holds the last 60 and the two oldest are gone
C13_Witness ==
    /\ mode = "outcome"
    /\ Observations = 62
    /\ Len(Os.price_history) = 60
    /\ Os.baseline_price = 10
    /\ Os.price_history[1] = 60
    /\ Os.price_history[2] = 14
    /\ Os.price_history[60] = Os.current_price

----------------------------------------------------------------------------
(* Python floats (IEEE-754 binary64) for parse_scale_in_pcts.  A            *)
(* non-negative float below 2^IntBits is kept exactly as a sequence of      *)
(* bits, most significant first: IntBits bits before the binary point and   *)
(* FracBits after it.  A float has at most 53 significant bits; division    *)
(* rounds to nearest, ties to even.                                         *)

\* significand of a binary64, hidden bit included
DoubleBits == 53
IntBits == 8
FracBits == 84
NBits == IntBits + FracBits
\* long division yields this many bits at a time
ChunkLen == 7

RECURSIVE Pow2(_)
Pow2(n) == IF n = 0 THEN 1 ELSE 2 * Pow2(n - 1)

\* float(n) for an integer 0 <= n < 2^IntBits: exact
FromInt(n) ==
    [i \in 1..NBits |-> IF i <= IntBits THEN (n \div Pow2(IntBits - i)) % 2 ELSE 0]

\* sums are taken LimbLen bits at a time
LimbLen == 23

\* the number whose bits are x[from..to]
RECURSIVE BitsValue(_, _, _, _)
BitsValue(x, from, to, acc) ==
    IF from > to THEN acc ELSE BitsValue(x, from + 1, to, 2 * acc + x[from])

\* limb k of x, the first limb being the most significant
LimbOf(x, k) == BitsValue(x, (k - 1) * LimbLen + 1, k * LimbLen, 0)

\* limb k of x + y before the carry out of it is taken off
RECURSIVE LimbSum(_, _, _)
LimbSum(x, y, k) ==
    IF k * LimbLen > NBits THEN 0
    ELSE LimbOf(x, k) + LimbOf(y, k) + LimbSum(x, y, k + 1) \div Pow2(LimbLen)

LimbBits(v) == [i \in 1..LimbLen |-> (v \div Pow2(LimbLen - i)) % 2]

\* the limbs k.. of x + y as bits
RECURSIVE SumBitsFrom(_, _, _)
SumBitsFrom(x, y, k) ==
    IF k * LimbLen > NBits THEN <<>>
    ELSE LimbBits(LimbSum(x, y, k)) \o SumBitsFrom(x, y, k + 1)

\* exact sum of two bit sequences
BitsAdd(x, y) == SumBitsFrom(x, y, 1)

\* x <= y
BitsLe(x, y) ==
    \/ x = y
    \/ \E i \in 1..NBits :
          /\ x[i] < y[i]
          /\ \A j \in 1..(i - 1) : x[j] = y[j]

\* 2^(IntBits - i): one unit in position i
UnitAt(i) == [j \in 1..NBits |-> IF j = i THEN 1 ELSE 0]

\* position of the leading 1, 0 if there is none
LeadingOne(x) ==
    IF \A i \in 1..NBits : x[i] = 0 THEN 0
    ELSE CHOOSE i \in 1..NBits : x[i] = 1 /\ \A j \in 1..(i - 1) : x[j] = 0

\* the nearest float to the number x + (a positive rest below one unit of the
\* last position, when sticky), ties to even
RoundToDouble(x, sticky) ==
    LET lead == LeadingOne(x)
        lsb == lead + DoubleBits - 1
    IN  IF lead = 0 \/ lsb >= NBits THEN x
        ELSE LET rest == sticky \/ \E j \in (lsb + 2)..NBits : x[j] = 1
                 kept == [i \in 1..NBits |-> IF i <= lsb THEN x[i] ELSE 0]
             IN  IF x[lsb + 1] = 1 /\ (rest \/ x[lsb] = 1)
                 THEN BitsAdd(kept, UnitAt(lsb))
                 ELSE kept

\* the first n * ChunkLen bits after the binary point of r / b, for r < b
RECURSIVE FracDigits(_, _, _)
FracDigits(r, b, n) ==
    IF n = 0 THEN <<>>
    ELSE [i \in 1..ChunkLen |->
             (((r * Pow2(ChunkLen)) \div b) \div Pow2(ChunkLen - i)) % 2]
         \o FracDigits((r * Pow2(ChunkLen)) % b, b, n - 1)

\* what is left of r / b after n * ChunkLen bits: zero or not
RECURSIVE FracRest(_, _, _)
FracRest(r, b, n) ==
    IF n = 0 THEN r # 0
    ELSE FracRest((r * Pow2(ChunkLen)) % b, b, n - 1)

\* the float a / b of two integers held exactly as floats, 0 <= a / b < 2^IntBits
FloatDiv(a, b) ==
    RoundToDouble([i \in 1..IntBits |-> ((a \div b) \div Pow2(IntBits - i)) % 2]
                      \o FracDigits(a % b, b, FracBits \div ChunkLen),
                  FracRest(a % b, b, FracBits \div ChunkLen))

----------------------------------------------------------------------------
(* parse_scale_in_pcts on the strings of Settings.scale_in_pcts.  A string  *)
(* is a sequence of characters; percentages are written without sign,       *)
(* point or exponent.                                                       *)

Chars == {"9", "0", ",", " ", "a"}
\* length of the string
MaxLen == 6

\* None, where a string is expected
NoString == << "<None>" >>
Strings == UNION { [1..n -> Chars] : n \in 0..MaxLen }

Digits == {"9", "0"}
DigitValue(c) == IF c = "9" THEN 9 ELSE 0

\* str.split(",")
RECURSIVE Split(_, _)
Split(str, cur) ==
    IF str = <<>> THEN << cur >>
    ELSE IF Head(str) = "," THEN << cur >> \o Split(Tail(str), <<>>)
    ELSE Split(Tail(str), Append(cur, Head(str)))

\* str.strip()
RECURSIVE LStrip(_)
LStrip(str) ==
    IF str # <<>> /\ Head(str) = " " THEN LStrip(Tail(str)) ELSE str

RECURSIVE RStrip(_)
RStrip(str) ==
    IF str # <<>> /\ str[Len(str)] = " "
    THEN RStrip(SubSeq(str, 1, Len(str) - 1)) ELSE str

Strip(str) == RStrip(LStrip(str))

\* float(str) raises ValueError
FloatRaises(str) == str = <<>> \/ \E i \in 1..Len(str) : str[i] \notin Digits

\* float(str) of a string of digits, as an integer
RECURSIVE FloatOf(_, _)
FloatOf(str, acc) ==
    IF str = <<>> THEN acc
    ELSE FloatOf(Tail(str), 10 * acc + DigitValue(Head(str)))

DefaultPcts == << FromInt(50), FromInt(30), FromInt(20) >>

\* mutant: the percentages are never rescaled
NeedsRescale_Never(total) == FALSE

\* sum(pcts) > 100
NeedsRescale(total) == total > 100

parse_scale_in_pcts(value) ==
    IF value = NoString \/ value = <<>> THEN DefaultPcts
    ELSE LET fields == Split(value, <<>>)
         IN  IF \E i \in 1..Len(fields) : FloatRaises(Strip(fields[i]))
             THEN DefaultPcts
             ELSE LET pcts == [i \in 1..Len(fields) |-> FloatOf(Strip(fields[i]), 0)]
                      total == SumSeq(pcts)
                  IN  IF NeedsRescale(total)
                      THEN [i \in 1..Len(pcts) |-> FloatDiv(pcts[i] * 100, total)]
                      ELSE [i \in 1..Len(pcts) |-> FromInt(pcts[i])]

\* Settings with scale_in_pcts as the string it is configured as
InitParse ==
    /\ mode = "parse"
    /\ \E value \in Strings \cup {NoString} :
         cfg = [MakeSettings(<<15, 5, 95>>, <<>>, 1000000, TRUE)
                   EXCEPT !.scale_in_pcts = value]
    /\ detectors = <<>>
    /\ siglog = EmptyLog
    /\ last = Idle
    /\ ticks = 0
    /\ ControllerIdle

\* scale_pcts = parse_scale_in_pcts(self.settings.scale_in_pcts)
ParseScaleIn ==
    /\ mode = "parse"
    /\ last.op = "init"
    /\ last' = [Idle EXCEPT !.op = "parse_scale_in_pcts",
                            !.pcts = parse_scale_in_pcts(cfg.scale_in_pcts)]
    /\ UNCHANGED <<cfg, mode, detectors, siglog, ticks>>
    /\ ControllerUnchanged

NextParse == ParseScaleIn

SpecParse == InitParse /\ [][NextParse]_vars

----------------------------------------------------------------------------
(* Properties of parse_scale_in_pcts *)

\* the fields of a string, and whether it is a list of numbers
FieldsOf(value) == Split(value, <<>>)
InvalidPcts(value) ==
    \/ value = NoString
    \/ value = <<>>
    \/ \E i \in 1..Len(FieldsOf(value)) : FloatRaises(Strip(FieldsOf(value)[i]))
GivenPcts(value) ==
    [i \in 1..Len(FieldsOf(value)) |-> FloatOf(Strip(FieldsOf(value)[i]), 0)]

\* the sum of a list of floats as a real number
RECURSIVE ExactSum(_)
ExactSum(fs) == IF fs = <<>> THEN FromInt(0) ELSE BitsAdd(Head(fs), ExactSum(Tail(fs)))

\* sum(fs) as Python adds floats: from the left, rounding after each addition
RECURSIVE FloatSum(_, _)
FloatSum(fs, acc) ==
    IF fs = <<>> THEN acc
    ELSE FloatSum(Tail(fs), RoundToDouble(BitsAdd(acc, Head(fs)), FALSE))

\* |x - y| <= 2^(-46)
WithinRounding(x, y) ==
    /\ BitsLe(x, BitsAdd(y, UnitAt(IntBits + 46)))
    /\ BitsLe(y, BitsAdd(x, UnitAt(IntBits + 46)))

Parsed == mode = "parse" /\ last.op = "parse_scale_in_pcts"

\* what the claim says of empty and invalid input and of percentages that
\* sum to at most 100
ParseKeepsOrDefaults ==
    /\ InvalidPcts(cfg.scale_in_pcts) =>
           last.pcts = << FromInt(50), FromInt(30), FromInt(20) >>
    /\ (~InvalidPcts(cfg.scale_in_pcts)
            /\ SumSeq(GivenPcts(cfg.scale_in_pcts)) <= 100) =>
           last.pcts = [i \in 1..Len(GivenPcts(cfg.scale_in_pcts)) |->
                           FromInt(GivenPcts(cfg.scale_in_pcts)[i])]

ParseRescales ==
    ~InvalidPcts(cfg.scale_in_pcts) /\ SumSeq(GivenPcts(cfg.scale_in_pcts)) > 100

----------------------------------------------------------------------------
(* Properties of the detector *)

SignalNames(log) == { log[i].outcome_name : i \in 1..Len(log) }

\* the signals of one outcome, in emission order
RECURSIVE SignalsOf(_, _)
SignalsOf(log, name) ==
    IF log = <<>> THEN <<>>
    ELSE IF Head(log).outcome_name = name
         THEN <<Head(log)>> \o SignalsOf(Tail(log), name)
         ELSE SignalsOf(Tail(log), name)

StateNamed(slug, name) ==
    detectors[slug].outcomes[IndexOf(detectors[slug].outcomes, name)]

Tracked(slug, name) ==
    slug \in DOMAIN detectors /\ IndexOf(detectors[slug].outcomes, name) # 0

\* C1: between two resets of a detector, all the signals it emits, through
\* update_prices or through the per-quote trigger check, are for one outcome.
C1_LockHolds ==
    \A slug \in DOMAIN detectors : Cardinality(SignalNames(siglog[slug])) <= 1

\* C1 witness: X has fired, and a later quote for Y that passes every gate
\* and has a scale-in slot was trigger-checked without firing
C1_Witness ==
    /\ mode = "detector"
    /\ last.op = "feed_price" /\ last.name = "Y" /\ last.sig = <<>>
    /\ SignalNames(siglog[DetSlug]) = {"X"}
    /\ Tracked(DetSlug, "Y")
    /\ PassesGates(StateNamed(DetSlug, "Y"), cfg)
    /\ SlotAvailable(StateNamed(DetSlug, "Y"), cfg)

\* C2: between resets an outcome fires at most len(scale_in_pcts) signals, and
\* its N-th signal has trigger_number N and budget_pct scale_in_pcts[N-1].
C2_ScaleIn ==
    \A slug \in DOMAIN detectors :
      \A name \in SignalNames(siglog[slug]) :
        LET sigs == SignalsOf(siglog[slug], name)
        IN  /\ Len(sigs) <= Len(cfg.scale_in_pcts)
            /\ \A n \in 1..Len(sigs) :
                 /\ sigs[n].trigger_number = n
                 /\ n <= Len(cfg.scale_in_pcts)
                 /\ sigs[n].budget_pct = cfg.scale_in_pcts[n]

\* C2 witness: a second signal of a 50/30/20 schedule has been emitted
C2_Witness ==
    /\ mode = "detector"
    /\ Len(cfg.scale_in_pcts) = 3
    /\ last.sig # <<>>
    /\ last.sig[1].trigger_number = 2
    /\ last.sig[1].budget_pct = 30

\* C3: an update_prices call returns at most one signal, and a returned
\* signal is for a tracked outcome whose z-score is positive and not below
\* the z-score of any other tracked outcome on that tick.
C3_BestMover ==
    (last.op = "update_prices") =>
        /\ Len(last.sig) <= 1
        /\ last.sig # <<>> =>
             /\ Tracked(last.slug, last.sig[1].outcome_name)
             /\ LET z == get_zscore(StateNamed(last.slug, last.sig[1].outcome_name))
                    outs == detectors[last.slug].outcomes
                IN  /\ ~z.none
                    /\ z.sgn > 0
                    /\ \A i \in 1..Len(outs) :
                         get_zscore(outs[i]).none \/ ~ZGt(get_zscore(outs[i]), z)

\* C3 witness: a signal was returned while another outcome of the detector
\* had a positive but lower z-score
C3_Witness ==
    /\ mode = "detector"
    /\ last.op = "update_prices"
    /\ last.sig # <<>>
    /\ \E i \in 1..Len(detectors[DetSlug].outcomes) :
         LET o == detectors[DetSlug].outcomes[i]
         IN  /\ o.outcome_name # last.sig[1].outcome_name
             /\ ~get_zscore(o).none
             /\ get_zscore(o).sgn > 0
             /\ ZLt(get_zscore(o), last.sig[1].zscore)

\* C9: a signal is emitted only for an outcome that, at that moment, has
\* z-score >= zscore_threshold, price change >= min_price_change and
\* current price <= max_buy_price.
C9_Gates ==
    last.sig # <<>> =>
        /\ Tracked(last.slug, last.sig[1].outcome_name)
        /\ LET o == StateNamed(last.slug, last.sig[1].outcome_name)
               z == get_zscore(o)
           IN  /\ ~z.none
               /\ z.sgn > 0
               /\ z.num * 100 >= cfg.zscore_threshold * cfg.zscore_threshold * z.den
               /\ o.current_price - o.baseline_price >= cfg.min_price_change
               /\ o.current_price <= cfg.max_buy_price
               /\ last.sig[1].current_price = o.current_price
               /\ last.sig[1].zscore = z

\* C9 witness: a quote above max_buy_price with a z-score over the threshold
\* and a large enough price change was trigger-checked and did not fire
C9_Witness ==
    /\ mode = "detector"
    /\ last.op = "feed_price" /\ last.sig = <<>>
    /\ Tracked(DetSlug, last.name)
    /\ LET o == StateNamed(DetSlug, last.name)
           z == get_zscore(o)
       IN  /\ ~z.none /\ z.sgn > 0
           /\ z.num * 100 >= cfg.zscore_threshold * cfg.zscore_threshold * z.den
           /\ o.current_price - o.baseline_price >= cfg.min_price_change
           /\ o.current_price > cfg.max_buy_price
           /\ detectors[DetSlug].locked_outcome = NoOutcome

\* C10: in scenario C, once the scripted prices have been fed, exactly three
\* signals have been emitted, with budget_pct 50, 30, 20 in that order, and
\* no further rise adds a fourth.
C10_ScenarioC ==
    (mode = "scenario" /\ ticks >= Len(ScenarioC)) =>
        LET log == siglog[ScenarioSlug]
        IN  /\ Len(log) = 3
            /\ log[1].budget_pct = 50 /\ log[1].trigger_number = 1
            /\ log[2].budget_pct = 30 /\ log[2].trigger_number = 2
            /\ log[3].budget_pct = 20 /\ log[3].trigger_number = 3

\* C10 witness: the script is done and the price has risen further, up to 0.90
C10_Witness ==
    /\ mode = "scenario"
    /\ ticks > Len(ScenarioC)
    /\ detectors[ScenarioSlug].outcomes[1].current_price = 90
    /\ Len(siglog[ScenarioSlug]) = 3
    /\ PassesGates(detectors[ScenarioSlug].outcomes[1], cfg)

----------------------------------------------------------------------------
(* The session controllers: order execution *)

\* the exchange's answer to buy_market_order: with dry_run a synthetic
\* success, otherwise whatever the exchange says (ok)
buy_market_order(dry_run, ok) == IF dry_run THEN TRUE ELSE ok

\* mutant: the order goes to the exchange whatever the flag
exchange_called_Always(dry_run) == TRUE

\* buy_market_order reaches client.create_market_order / post_order
\* (polymarket.py 239-243)
exchange_called(dry_run) == ~dry_run

\* a notional without the clamp to the remaining budget
Notional_NoClamp(budget, budget_pct) == (budget * budget_pct) \div 100

\* mutant: every order is for all that is left
Notional_AllIn(budget, budget_pct) == budget

\* min(self._budget_remaining * alloc_pct, self._budget_remaining)
Notional(budget, budget_pct) == Min((budget * budget_pct) \div 100, budget)

\* a controller without the $1 floor
BelowFloor_Never(amount) == FALSE

\* amount < 1.0
BelowFloor(amount) == amount < OneDollar

\* a controller that charges the budget whatever the result
AfterOrder_AlwaysCharged(budget, amount, success) == budget - amount

\* a controller that never charges the budget
AfterOrder_NeverCharged(budget, amount, success) == budget

\* a controller that credits the amount instead of charging it
AfterOrder_SignSlip(budget, amount, success) ==
    IF success THEN budget + amount ELSE budget

\* if result.success: self._budget_remaining -= amount
AfterOrder(budget, amount, success) == IF success THEN budget - amount ELSE budget

\* called: buy_market_order was called; posted: it called the exchange
ExecRecord(slug, sig, before, called, posted, amount, success, after) ==
    [slug |-> slug, token_id |-> sig.token_id, pct |-> sig.budget_pct,
     before |-> before, called |-> called, posted |-> posted, amount |-> amount,
     success |-> success, after |-> after]

\* MovementBot._execute_signal
poll_execute_signal(budget, slug, sig, c, ok) ==
    IF ~c.polymarket
    THEN ExecRecord(slug, sig, budget, FALSE, FALSE, 0, FALSE, budget)
    ELSE LET amount == Notional(budget, sig.budget_pct)
         IN  IF BelowFloor(amount)
             THEN ExecRecord(slug, sig, budget, FALSE, FALSE, amount, FALSE, budget)
             ELSE LET success == buy_market_order(c.dry_run, ok)
                  IN  ExecRecord(slug, sig, budget, TRUE,
                                 exchange_called(c.dry_run), amount, success,
                                 AfterOrder(budget, amount, success))

\* WebSocketMovementBot._execute_signal
ws_execute_signal(budget, slug, sig, c, ok) ==
    IF c.dry_run \/ ~c.polymarket
    THEN ExecRecord(slug, sig, budget, FALSE, FALSE, 0, FALSE, budget)
    ELSE LET amount == Notional(budget, sig.budget_pct)
         IN  IF BelowFloor(amount)
             THEN ExecRecord(slug, sig, budget, FALSE, FALSE, amount, FALSE, budget)
             ELSE LET success == buy_market_order(c.dry_run, ok)
                  IN  ExecRecord(slug, sig, budget, TRUE,
                                 exchange_called(c.dry_run), amount, success,
                                 AfterOrder(budget, amount, success))

\* the orders of execs added to the window's record
RECURSIVE Booked(_, _)
Booked(ord, execs) ==
    IF execs = <<>> THEN ord
    ELSE Booked(IF ~Head(execs).called THEN ord
                ELSE IF Head(execs).success
                THEN [ord EXCEPT !.spent = @ + Head(execs).amount,
                                 !.slugs = @ \cup {Head(execs).slug}]
                ELSE [ord EXCEPT !.failed = TRUE],
                Tail(execs))

----------------------------------------------------------------------------
(* The session controllers: window start and end *)

\* what market discovery can return at a window start
DiscoverOptions == { <<>>, <<"fri", "sat">> }

\* quotes of the controllers' feeds
BotPrices == {30}

\* settings of the controllers (threshold 1.5, $100 or $1.50, live or dry
\* run); "150,-60" is a SCALE_IN_PCTS string that parse_scale_in_pcts returns
\* unchanged, its sum being 90

BotSettings ==
    { MakeSettings(<<15, 5, 95>>, <<50, 30, 20>>, 1000000, FALSE),
      MakeSettings(<<15, 5, 95>>, <<50, 30, 20>>, 1000000, TRUE),
      MakeSettings(<<15, 5, 95>>, <<50, 30, 20>>, 15000, FALSE),
      MakeSettings(<<15, 5, 95>>, <<150, 0 - 60>>, 1000000, FALSE) }

\* best asks the controllers see when they take the baselines; the second
\* market may stand at another level than the first
BotBaselineQuotes == {10}
SatBaselineQuotes == {10, 20}

\* baseline quotes for every outcome of every discovered market
BaselineChoices(markets) ==
    [ {markets[k] : k \in 1..Len(markets)} ->
        UNION { QuoteVectors(sl, IF sl = "sat" THEN SatBaselineQuotes
                                 ELSE BotBaselineQuotes) : sl \in Slugs } ]

\* one fresh detector per market, baselined from its order books
\* (movement_bot.py 172-182, ws_movement_bot.py 470-481)
RECURSIVE BuildDetectors(_, _, _, _)
BuildDetectors(dets, markets, quotes, k) ==
    IF k > Len(markets) THEN dets
    ELSE LET slug == markets[k]
             det == set_baseline(NewDetector, MarketOutcomes(slug), quotes[slug])
         IN  BuildDetectors(
               [sl \in (DOMAIN dets) \cup {slug} |-> IF sl = slug THEN det ELSE dets[sl]],
               markets, quotes, k + 1)

NoDetectors == [sl \in {} |-> NewDetector]

\* mutant: the budget of the window before is carried over
StartBudget_Carried(c, budget) == budget

\* self._budget_remaining = self.settings.max_trade_size_usd
StartBudget(c, budget) == c.max_trade_size_usd

\* mutant: the feed is left running at the end of the window
RunAfterEnd_Kept(flag) == flag

\* self._ws_should_run = False at the end of the window (line 495)
RunAfterEnd(flag) == FALSE

WellFormedBaseline(markets, quotes) ==
    \A k \in 1..Len(markets) :
        DOMAIN quotes[markets[k]] = 1..Len(MarketOutcomes(markets[k]))

----------------------------------------------------------------------------
(* The polling controller: MovementBot.run *)

InitPoll ==
    /\ mode = "poll"
    /\ cfg \in BotSettings
    /\ detectors = NoDetectors
    /\ siglog = EmptyLog
    /\ last = Idle
    /\ ticks = 0
    /\ ControllerIdle

\* top of one iteration of the main loop (lines 153-199): the clock says
\* whether the monitoring window is open
PollLoopIter(in_window) ==
    /\ mode = "poll"
    /\ running
    /\ poll_idx = 0
    /\ clock_open' = in_window
    /\ \E discovered \in (IF cfg.polymarket THEN DiscoverOptions ELSE { <<>> }) :
       \E quotes \in BaselineChoices(discovered) :
         LET started == in_window /\ ~was_in_window
             ended == ~in_window /\ was_in_window
             markets == IF started THEN discovered
                        ELSE IF ended THEN <<>> ELSE current_markets
         IN  /\ started => windows < MaxWindows
             /\ started => WellFormedBaseline(discovered, quotes)
             /\ ~started => (discovered = <<>> /\ quotes = <<>>)
             /\ (in_window /\ markets # <<>>) => ticks < MaxBotTicks
             /\ budget_remaining' = IF started THEN StartBudget(cfg, budget_remaining)
                                    ELSE budget_remaining
             /\ current_markets' = markets
             /\ detectors' = IF started /\ Len(discovered) > 0
                             THEN BuildDetectors(NoDetectors, discovered, quotes, 1)
                             ELSE IF ended THEN NoDetectors ELSE detectors
             /\ siglog' = IF (started /\ Len(discovered) > 0) \/ ended
                          THEN EmptyLog ELSE siglog
             /\ orders' = IF started THEN NoOrders ELSE orders
             /\ windows' = IF started THEN windows + 1 ELSE windows
             /\ was_in_window' = in_window
             /\ poll_idx' = IF in_window /\ markets # <<>> THEN 1 ELSE 0
             /\ ticks' = IF in_window /\ markets # <<>> THEN ticks + 1 ELSE ticks
             /\ last' = [Idle EXCEPT !.op = IF started THEN "window_start"
                                            ELSE IF ended THEN "window_end"
                                            ELSE "loop"]
    /\ UNCHANGED <<feed_task, cfg, mode, running, exited,
                   token_id_to_outcome, token_id_to_slug,
                   ws_should_run, ws_open, update_count>>

\* the clock may have moved either way since the loop last read it
PollLoopTop == \E in_window \in BOOLEAN : PollLoopIter(in_window)

\* one market of the polling pass (lines 200-210): ok is the exchange's
\* answer should an order be sent, refreshed is FALSE when no order book of
\* the market could be fetched
PollMarket ==
    /\ mode = "poll"
    /\ poll_idx > 0
    /\ LET slug == current_markets[poll_idx]
       IN  \E refreshed \in BOOLEAN, ok \in BOOLEAN :
           \E quotes \in QuoteVectors(slug, BotPrices \cup {NoPrice}) :
           \E r \in ( IF slug \in DOMAIN detectors /\ detectors[slug].baseline_set
                         /\ refreshed
                      THEN update_prices(detectors[slug], MarketOutcomes(slug),
                                         quotes, cfg)
                      ELSE { [det |-> NewDetector, sig |-> <<>>] } ) :
           \E execs \in { IF r.sig = <<>> THEN <<>>
                          ELSE << poll_execute_signal(budget_remaining, slug,
                                                      r.sig[1], cfg, ok) >> } :
             /\ (~refreshed) => (\A i \in DOMAIN quotes : quotes[i] = NoPrice)
             /\ detectors' = IF slug \in DOMAIN detectors
                                /\ detectors[slug].baseline_set /\ refreshed
                             THEN [detectors EXCEPT ![slug] = r.det]
                             ELSE detectors
             /\ siglog' = [siglog EXCEPT ![slug] = @ \o r.sig]
             /\ budget_remaining' = IF execs = <<>> THEN budget_remaining
                                    ELSE execs[1].after
             /\ orders' = Booked(orders, execs)
             /\ last' = [Idle EXCEPT !.op = "poll_market", !.slug = slug,
                                     !.sig = r.sig, !.execs = execs]
    /\ poll_idx' = IF poll_idx < Len(current_markets) THEN poll_idx + 1 ELSE 0
    /\ UNCHANGED <<feed_task, cfg, mode, running, exited, clock_open,
                   token_id_to_outcome, token_id_to_slug,
                   current_markets, was_in_window, ws_should_run, ws_open,
                   windows, update_count, ticks>>

----------------------------------------------------------------------------
(* The push-feed controller: WebSocketMovementBot *)

\* dict.get: the value under a key, "" (None) when the key is absent
Get(map, key) == IF key \in DOMAIN map THEN map[key] ELSE ""

\* a subscription that files every token under the last market's slug
MapSlug_Last(markets, k) == markets[Len(markets)]

\* slug under which the tokens of the k-th market are filed (line 348)
MapSlug(markets, k) == markets[k]

\* the (market index, outcome index) pairs of _subscribe_to_markets, as one
\* list in the order of the two nested loops (lines 347-353)
RECURSIVE SubscribePairs(_, _)
SubscribePairs(markets, k) ==
    IF k > Len(markets) THEN <<>>
    ELSE [i \in 1..Len(MarketOutcomes(markets[k])) |-> <<k, i>>]
         \o SubscribePairs(markets, k + 1)

\* self._token_id_to_outcome after _subscribe_to_markets
SubscribeOutcomeMap(markets) ==
    LET pairs == SubscribePairs(markets, 1)
        toks == { MarketOutcomes(markets[pairs[j][1]])[pairs[j][2]].token_id :
                    j \in 1..Len(pairs) }
    IN  [t \in toks |->
            LET j == CHOOSE j \in 1..Len(pairs) :
                       /\ MarketOutcomes(markets[pairs[j][1]])[pairs[j][2]].token_id = t
                       /\ \A j2 \in (j + 1)..Len(pairs) :
                            MarketOutcomes(markets[pairs[j2][1]])[pairs[j2][2]].token_id # t
            IN  MarketOutcomes(markets[pairs[j][1]])[pairs[j][2]].outcome]

\* self._token_id_to_slug after _subscribe_to_markets
SubscribeSlugMap(markets) ==
    LET pairs == SubscribePairs(markets, 1)
        toks == { MarketOutcomes(markets[pairs[j][1]])[pairs[j][2]].token_id :
                    j \in 1..Len(pairs) }
    IN  [t \in toks |->
            LET j == CHOOSE j \in 1..Len(pairs) :
                       /\ MarketOutcomes(markets[pairs[j][1]])[pairs[j][2]].token_id = t
                       /\ \A j2 \in (j + 1)..Len(pairs) :
                            MarketOutcomes(markets[pairs[j2][1]])[pairs[j2][2]].token_id # t
            IN  MapSlug(markets, pairs[j][1])]

\* the part of the bot a feed message can change, threaded through the
\* handlers: sigs and execs collect what the message led to
BotState(dets, budget, count, log) ==
    [detectors |-> dets, budget |-> budget, update_count |-> count,
     siglog |-> log, sigs |-> <<>>, execs |-> <<>>]

\* mutant: the detector gets its slot back when the order did not go through
_feed_price_to_detector_GivesBack(bs, asset_id, outcome_name, slug, price, ok, c) ==
    IF slug \notin DOMAIN bs.detectors THEN bs
    ELSE LET r == feed_price(bs.detectors[slug], outcome_name, price, c)
             bs1 == [bs EXCEPT !.detectors[slug] = r.det,
                               !.siglog[slug] = @ \o r.sig,
                               !.sigs = @ \o r.sig]
         IN  IF r.sig = <<>> THEN bs1
             ELSE LET e == ws_execute_signal(bs1.budget, slug, r.sig[1], c, ok)
                  IN  [bs1 EXCEPT !.budget = e.after, !.execs = Append(@, e),
                                  !.detectors[slug] =
                                      IF e.success THEN r.det
                                      ELSE [bs.detectors[slug] EXCEPT
                                              !.outcomes = r.det.outcomes,
                                              !.outcomes[IndexOf(r.det.outcomes,
                                                  outcome_name)].trigger_count
                                                    = @ - 1]]

\* _feed_price_to_detector (lines 308-324)
_feed_price_to_detector(bs, asset_id, outcome_name, slug, price, ok, c) ==
    IF slug \notin DOMAIN bs.detectors THEN bs
    ELSE LET r == feed_price(bs.detectors[slug], outcome_name, price, c)
             bs1 == [bs EXCEPT !.detectors[slug] = r.det,
                               !.siglog[slug] = @ \o r.sig,
                               !.sigs = @ \o r.sig]
         IN  IF r.sig = <<>> THEN bs1
             ELSE LET e == ws_execute_signal(bs1.budget, slug, r.sig[1], c, ok)
                  IN  [bs1 EXCEPT !.budget = e.after, !.execs = Append(@, e)]

\* _process_book_event (lines 235-263); price is the first ask of the
\* snapshot, NoPrice when the ask list is empty
_process_book_event(bs, msg, t2o, t2s, ok, c) ==
    IF msg.asset_id = "" THEN bs
    ELSE IF Get(t2o, msg.asset_id) = "" \/ Get(t2s, msg.asset_id) = "" THEN bs
    ELSE IF msg.price = NoPrice THEN bs
    ELSE IF msg.price <= 0 THEN bs
    ELSE _feed_price_to_detector(
             [bs EXCEPT !.update_count = @ + 1], msg.asset_id,
             Get(t2o, msg.asset_id), Get(t2s, msg.asset_id), msg.price, ok, c)

\* the loop over the nested price_changes array (lines 288-306)
RECURSIVE ProcessChanges(_, _, _, _, _, _, _)
ProcessChanges(bs, changes, k, t2o, t2s, oks, c) ==
    IF k > Len(changes) THEN bs
    ELSE LET aid == changes[k].asset_id
             best_ask == changes[k].best_ask
         IN  IF aid = "" \/ best_ask = NoPrice
             THEN ProcessChanges(bs, changes, k + 1, t2o, t2s, oks, c)
             ELSE IF Get(t2o, aid) = "" \/ Get(t2s, aid) = ""
             THEN ProcessChanges(bs, changes, k + 1, t2o, t2s, oks, c)
             ELSE IF best_ask > 0
             THEN ProcessChanges(
                      _feed_price_to_detector(
                          [bs EXCEPT !.update_count = @ + 1], aid,
                          Get(t2o, aid), Get(t2s, aid), best_ask, oks[k], c),
                      changes, k + 1, t2o, t2s, oks, c)
             ELSE ProcessChanges(bs, changes, k + 1, t2o, t2s, oks, c)

\* _process_price_change (lines 265-306)
_process_price_change(bs, msg, t2o, t2s, oks, c) ==
    IF /\ msg.asset_id # "" /\ msg.price # NoPrice /\ msg.side = "ASK"
       /\ Get(t2o, msg.asset_id) # "" /\ Get(t2s, msg.asset_id) # ""
       /\ msg.price > 0
    THEN _feed_price_to_detector(
             [bs EXCEPT !.update_count = @ + 1], msg.asset_id,
             Get(t2o, msg.asset_id), Get(t2s, msg.asset_id), msg.price, oks[1], c)
    ELSE ProcessChanges(bs, msg.price_changes, 1, t2o, t2s, oks, c)

\* _process_message (lines 217-233)
_process_message(bs, msg, t2o, t2s, oks, c) ==
    IF msg.event_type = "book"
    THEN _process_book_event(bs, msg, t2o, t2s, oks[1], c)
    ELSE IF msg.event_type = "price_change"
    THEN _process_price_change(bs, msg, t2o, t2s, oks, c)
    ELSE bs

\* number of entries of a nested price_changes array
MaxChanges == 2
\* number of quotes the feed delivers to the detectors in a behaviour
MaxUpdates == 6

MsgAssets == Tokens \cup {"unknown"}
MsgPrices == BotPrices \cup {0, NoPrice}

Changes == [asset_id : Tokens, best_ask : BotPrices]
\* nested arrays carry each asset at most once
ChangeLists ==
    { l \in UNION { [1..n -> Changes] : n \in 1..MaxChanges } :
        \A i, j \in 1..Len(l) : l[i].asset_id = l[j].asset_id => i = j }

\* the feed messages: book snapshots, price changes with the quote at top
\* level, price changes with a nested array, and trade prints
Messages ==
    [event_type : {"book"}, asset_id : MsgAssets, side : {""},
     price : MsgPrices, price_changes : { <<>> }]
    \cup
    [event_type : {"price_change"}, asset_id : Tokens, side : {"ASK", "BID"},
     price : BotPrices, price_changes : { <<>> }]
    \cup
    [event_type : {"price_change"}, asset_id : {""}, side : {""},
     price : {NoPrice}, price_changes : ChangeLists]
    \cup
    [event_type : {"last_trade_price"}, asset_id : {"unknown"}, side : {""},
     price : {NoPrice}, price_changes : { <<>> }]

\* the markets whose tokens a message carries quotes for
MessageMarkets(msg) ==
    { sl \in Slugs :
        \E i \in 1..Len(MarketOutcomes(sl)) :
            \/ MarketOutcomes(sl)[i].token_id = msg.asset_id
            \/ \E k \in 1..Len(msg.price_changes) :
                  MarketOutcomes(sl)[i].token_id = msg.price_changes[k].asset_id }

InitWs ==
    /\ mode = "ws"
    /\ cfg \in BotSettings
    /\ detectors = NoDetectors
    /\ siglog = EmptyLog
    /\ last = Idle
    /\ ticks = 0
    /\ ControllerIdle

\* mutant: the feed is kept until the window ends
Exhausted_Never(in_window, budget, flag) == FALSE

\* the budget-exhaustion check of run() (lines 531-534)
Exhausted(in_window, budget, flag) ==
    in_window /\ BelowFloor(budget) /\ flag

\* one iteration of run() (lines 452-552): window start, window end and the
\* budget-exhaustion check
WsLoopIter(in_window) ==
    /\ mode = "ws"
    /\ running
    /\ clock_open' = in_window
    \* the task created at a window start begins at the top of _run_websocket
    /\ feed_task' = IF in_window /\ ~was_in_window THEN NewFeedTask ELSE feed_task
    /\ \E discovered \in (IF cfg.polymarket THEN DiscoverOptions ELSE { <<>> }) :
       \E quotes \in BaselineChoices(discovered) :
         LET started == in_window /\ ~was_in_window
             ended == ~in_window /\ was_in_window
             budget == IF started THEN StartBudget(cfg, budget_remaining)
                       ELSE budget_remaining
             run1 == IF started /\ discovered # <<>> THEN TRUE
                     ELSE IF ended THEN RunAfterEnd(ws_should_run)
                     ELSE ws_should_run
             open1 == IF ended THEN FALSE ELSE ws_open
             exhausted == Exhausted(in_window, budget, run1)
         IN  /\ started => windows < MaxWindows
             /\ started => WellFormedBaseline(discovered, quotes)
             /\ ~started => (discovered = <<>> /\ quotes = <<>>)
             /\ budget_remaining' = budget
             /\ update_count' = IF started THEN 0 ELSE update_count
             /\ current_markets' = IF started THEN discovered
                                   ELSE IF ended THEN <<>> ELSE current_markets
             /\ detectors' = IF started
                             THEN BuildDetectors(NoDetectors, discovered, quotes, 1)
                             ELSE IF ended THEN NoDetectors ELSE detectors
             /\ siglog' = IF started \/ ended THEN EmptyLog ELSE siglog
             /\ orders' = IF started THEN NoOrders ELSE orders
             /\ windows' = IF started THEN windows + 1 ELSE windows
             /\ was_in_window' = in_window
             /\ ws_should_run' = IF exhausted THEN FALSE ELSE run1
             /\ ws_open' = IF exhausted THEN FALSE ELSE open1
             /\ last' = [Idle EXCEPT !.op = IF started THEN "window_start"
                                            ELSE IF ended THEN "window_end"
                                            ELSE "loop"]
    /\ UNCHANGED <<cfg, mode, running, exited,
                   token_id_to_outcome, token_id_to_slug, poll_idx,
                   ticks>>

\* the clock may have moved either way since the loop last read it
WsLoopTop == \E in_window \in BOOLEAN : WsLoopIter(in_window)

\* _run_websocket: a connection is established and _subscribe_to_markets
\* rebuilds the token maps (lines 378-390, 341-353)
WsConnect ==
    /\ mode = "ws"
    /\ ws_should_run
    /\ ~ws_open
    /\ feed_task.pos = "await"
    /\ ws_open' = TRUE
    \* delay = RECONNECT_DELAY (line 386); ping_task is created (line 392)
    /\ feed_task' = [feed_task EXCEPT !.delay = RECONNECT_DELAY, !.waits = 0,
                                      !.ping = "sleep"]
    /\ token_id_to_outcome' = SubscribeOutcomeMap(current_markets)
    /\ token_id_to_slug' = SubscribeSlugMap(current_markets)
    /\ last' = [Idle EXCEPT !.op = "ws_connect"]
    /\ UNCHANGED <<cfg, mode, running, exited, clock_open,
                   detectors, budget_remaining, current_markets,
                   was_in_window, ws_should_run, poll_idx, windows,
                   update_count, siglog, orders, ticks>>

\* what processing a message can lead to: the exchange's answers matter
\* only when the message leads to an order
ProcessOutcomes(msg) ==
    LET bs0 == BotState(detectors, budget_remaining, update_count, siglog)
        accepted == _process_message(bs0, msg, token_id_to_outcome,
                                     token_id_to_slug,
                                     [k \in 1..MaxChanges |-> TRUE], cfg)
    IN  IF \A k \in 1..Len(accepted.execs) : ~accepted.execs[k].called
        THEN { accepted }
        ELSE { _process_message(bs0, msg, token_id_to_outcome, token_id_to_slug,
                                oks, cfg) : oks \in [1..MaxChanges -> BOOLEAN] }

\* a loop over the feed that never looks at the flag
FeedAccepts_Always(flag) == TRUE

\* the test at the head of the loop over the feed (lines 395-396)
FeedAccepts(flag) == flag

\* one message of the feed (lines 394-412)
WsMessage ==
    /\ mode = "ws"
    /\ ws_open
    /\ FeedAccepts(ws_should_run)
    /\ \E msg \in Messages :
       \E bs \in ProcessOutcomes(msg) :
         /\ ticks + (bs.update_count - update_count) <= MaxUpdates
         /\ ticks' = ticks + (bs.update_count - update_count)
         /\ detectors' = bs.detectors
         /\ budget_remaining' = bs.budget
         /\ update_count' = bs.update_count
         /\ siglog' = bs.siglog
         /\ orders' = Booked(orders, bs.execs)
         /\ last' = [Idle EXCEPT !.op = "ws_message", !.sig = bs.sigs,
                                 !.execs = bs.execs,
                                 !.markets = MessageMarkets(msg)]
    /\ UNCHANGED <<feed_task, cfg, mode, running, exited, clock_open,
                   token_id_to_outcome, token_id_to_slug,
                   current_markets, was_in_window, ws_should_run, ws_open,
                   poll_idx, windows>>

NextControllers == PollLoopTop \/ PollMarket \/ WsLoopTop \/ WsConnect
                   \/ WsMessage

\* both controllers: the initial state decides which of the two programs runs
SpecControllers == (InitPoll \/ InitWs) /\ [][NextControllers]_vars

----------------------------------------------------------------------------
(* stop(): the operator's signal. The handler is run by the event loop, so *)
(* it lands only where the coroutines are suspended: in the sleep that     *)
(* ends an iteration of run(), or while the feed task waits for a message. *)

\* MovementBot.stop (movement_bot.py 222-224)
PollStop ==
    /\ mode = "poll"
    /\ poll_idx = 0
    /\ running
    /\ ~exited
    /\ running' = FALSE
    /\ last' = [Idle EXCEPT !.op = "stop"]
    /\ UNCHANGED <<feed_task, cfg, mode, clock_open, detectors,
                   budget_remaining, token_id_to_outcome,
                   token_id_to_slug, current_markets, was_in_window,
                   ws_should_run, ws_open, exited, poll_idx, windows,
                   update_count, siglog, orders, ticks>>

\* WebSocketMovementBot.stop (ws_movement_bot.py 558-562)
WsStop ==
    /\ mode = "ws"
    /\ running
    /\ ~exited
    /\ running' = FALSE
    /\ ws_should_run' = FALSE
    /\ last' = [Idle EXCEPT !.op = "stop"]
    /\ UNCHANGED <<feed_task, cfg, mode, clock_open, detectors,
                   budget_remaining, token_id_to_outcome,
                   token_id_to_slug, current_markets, was_in_window, ws_open,
                   exited, poll_idx, windows, update_count, siglog, orders,
                   ticks>>

\* the feed delivers a message while _ws_should_run is down: the loop over
\* the feed breaks before the message is parsed, the connection is left and
\* _ws is cleared (ws_movement_bot.py 394-396, 413-428)
WsBreak ==
    /\ mode = "ws"
    /\ ws_open
    /\ ~FeedAccepts(ws_should_run)
    /\ ~exited
    /\ ws_open' = FALSE
    /\ last' = [Idle EXCEPT !.op = "ws_break"]
    /\ UNCHANGED <<feed_task, cfg, mode, clock_open, detectors,
                   budget_remaining, token_id_to_outcome,
                   token_id_to_slug, current_markets, was_in_window,
                   ws_should_run, running, exited, poll_idx, windows,
                   update_count, siglog, orders, ticks>>

\* the test of `while self._running` fails and run() returns
\* (movement_bot.py 153, ws_movement_bot.py 452)
MainExit ==
    /\ mode \in {"poll", "ws"}
    /\ poll_idx = 0
    /\ ~running
    /\ ~exited
    /\ exited' = TRUE
    /\ last' = [Idle EXCEPT !.op = "exit"]
    /\ UNCHANGED <<feed_task, cfg, mode, clock_open, detectors,
                   budget_remaining, token_id_to_outcome,
                   token_id_to_slug, current_markets, was_in_window,
                   ws_should_run, ws_open, running, poll_idx, windows,
                   update_count, siglog, orders, ticks>>

NextStop == NextControllers \/ PollStop \/ WsStop \/ WsBreak \/ MainExit

\* the sleep that ends an iteration returns, so the loop test is reached
SpecStop ==
    /\ InitPoll \/ InitWs
    /\ [][NextStop]_vars
    /\ WF_vars(MainExit)

----------------------------------------------------------------------------
(* The push-feed bot with the wall clock made explicit: the window opens   *)
(* and closes at its hours whatever the bot is doing, run() learns of it   *)
(* only when it wakes from its sleep and calls _in_monitor_window(), and   *)
(* the feed task handles messages in between.                              *)

\* the clock passes the start or the end of the window
\* (ws_movement_bot.py 86-93: datetime.now is read, never set)
ClockTurns ==
    /\ mode = "ws"
    /\ clock_open' = ~clock_open
    /\ last' = [Idle EXCEPT !.op = "clock"]
    /\ UNCHANGED <<feed_task, cfg, mode, detectors, budget_remaining,
                   token_id_to_outcome,
                   token_id_to_slug, current_markets, was_in_window,
                   ws_should_run, ws_open, running, exited, poll_idx, windows,
                   update_count, siglog, orders, ticks>>

\* one iteration of run() on the clock as it stands (line 454)
WsLoopRead == WsLoopIter(clock_open)

NextClock == ClockTurns \/ WsLoopRead \/ WsConnect \/ WsMessage

\* a live bot on the 50/30/20 schedule, with $100 or $1.50 to spend
InitClock ==
    /\ InitWs
    /\ ~cfg.dry_run
    /\ cfg.scale_in_pcts = <<50, 30, 20>>

SpecClock == InitClock /\ [][NextClock]_vars

----------------------------------------------------------------------------
(* The feed task statement by statement. run() and _run_websocket are the  *)
(* two coroutines of one event loop: a coroutine keeps the processor until *)
(* it reaches an await that suspends it. feed_task.pos is where the feed   *)
(* task stands: "await" (connecting or waiting for the next message),      *)
(* "feed", "check", "execute", "charge" (inside the handling of one quote) *)
(* and "backoff" (about to sleep before reconnecting).                     *)

\* mutant: the order call is awaited, so the task is suspended before the
\* budget is charged
Yields_OrderAwaited(pos) == pos \in {"await", "backoff", "charge"}

\* the positions at which the feed task is suspended: the async for of line
\* 394 and the sleep of line 434; _process_message, _process_book_event,
\* _feed_price_to_detector, _execute_signal and buy_market_order are plain
\* functions
Yields(pos) == pos \in {"await", "backoff"}

\* run() gets the processor for one iteration (it has no position of its own
\* here: every iteration ends in the sleep of lines 549-552)
StepRun ==
    /\ Yields(feed_task.pos)
    /\ WsLoopTop

\* async for raw_message in ws (lines 394-412): a book snapshot whose token
\* is subscribed and whose best ask is positive reaches
\* _feed_price_to_detector (lines 235-263)
StepRecv ==
    /\ mode = "ws"
    /\ ws_open
    /\ feed_task.pos = "await"
    /\ FeedAccepts(ws_should_run)
    /\ ticks < MaxUpdates
    /\ \E tok \in DOMAIN token_id_to_outcome, price \in BotPrices :
         /\ Get(token_id_to_slug, tok) # ""
         /\ last' = [Idle EXCEPT !.op = "recv",
                                 !.name = token_id_to_outcome[tok],
                                 !.slug = token_id_to_slug[tok],
                                 !.price = price]
    /\ update_count' = update_count + 1
    /\ ticks' = ticks + 1
    /\ feed_task' = [feed_task EXCEPT !.pos = "feed"]
    /\ UNCHANGED <<cfg, mode, running, exited, clock_open, detectors,
                   budget_remaining, token_id_to_outcome, token_id_to_slug,
                   current_markets, was_in_window, ws_should_run, ws_open,
                   poll_idx, windows, siglog, orders>>

\* _feed_price_to_detector, lines 312-320: the detector and the outcome are
\* looked up and the quote is appended to the outcome's history
StepUpdate ==
    /\ mode = "ws"
    /\ feed_task.pos = "feed"
    /\ LET known == /\ last.slug \in DOMAIN detectors
                    /\ IndexOf(detectors[last.slug].outcomes, last.name) # 0
       IN  /\ detectors' =
                IF known
                THEN [detectors EXCEPT ![last.slug].outcomes[
                          IndexOf(detectors[last.slug].outcomes, last.name)] =
                              update_price(@, last.price)]
                ELSE detectors
           /\ feed_task' = [feed_task EXCEPT
                               !.pos = IF known THEN "check" ELSE "await"]
    /\ last' = [last EXCEPT !.op = "update"]
    /\ UNCHANGED <<cfg, mode, running, exited, clock_open, budget_remaining,
                   token_id_to_outcome, token_id_to_slug, current_markets,
                   was_in_window, ws_should_run, ws_open, poll_idx, windows,
                   update_count, siglog, orders, ticks>>

\* _feed_price_to_detector, lines 321-323: the trigger check on the quoted
\* outcome; the detector the task holds is the one it looked up, whether or
\* not the bot still lists it
StepCheck ==
    /\ mode = "ws"
    /\ feed_task.pos = "check"
    /\ IF last.slug \in DOMAIN detectors
       THEN LET det == detectors[last.slug]
                r == check_trigger(det, IndexOf(det.outcomes, last.name), cfg)
            IN  /\ detectors' =
                     [detectors EXCEPT ![last.slug] =
                         IF r.sig # <<>>
                         THEN [r.det EXCEPT !.total_signals = @ + 1]
                         ELSE r.det]
                /\ siglog' = [siglog EXCEPT ![last.slug] = @ \o r.sig]
                /\ last' = [last EXCEPT !.op = "check", !.sig = r.sig]
                /\ feed_task' = [feed_task EXCEPT
                       !.pos = IF r.sig # <<>> THEN "execute" ELSE "await"]
       ELSE /\ UNCHANGED <<detectors, siglog>>
            /\ last' = [last EXCEPT !.op = "check"]
            /\ feed_task' = [feed_task EXCEPT !.pos = "await"]
    /\ UNCHANGED <<cfg, mode, running, exited, clock_open, budget_remaining,
                   token_id_to_outcome, token_id_to_slug, current_markets,
                   was_in_window, ws_should_run, ws_open, poll_idx, windows,
                   update_count, orders, ticks>>

\* _execute_signal, lines 186-206: the order is sized from the budget as it
\* stands and sent; the exchange accepts it or not
StepOrder ==
    /\ mode = "ws"
    /\ feed_task.pos = "execute"
    /\ \E ok \in BOOLEAN :
         LET e == ws_execute_signal(budget_remaining, last.slug, last.sig[1],
                                    cfg, ok)
         IN  /\ e.called \/ ok
             /\ last' = [last EXCEPT !.op = "order", !.execs = <<e>>]
             /\ orders' = Booked(orders, <<e>>)
             /\ feed_task' = [feed_task EXCEPT
                    !.pos = IF e.success THEN "charge" ELSE "await"]
    /\ UNCHANGED <<cfg, mode, running, exited, clock_open, detectors,
                   budget_remaining, token_id_to_outcome, token_id_to_slug,
                   current_markets, was_in_window, ws_should_run, ws_open,
                   poll_idx, windows, update_count, siglog, ticks>>

\* _execute_signal, line 208: self._budget_remaining -= amount
StepCharge ==
    /\ mode = "ws"
    /\ feed_task.pos = "charge"
    /\ budget_remaining' = budget_remaining - last.execs[1].amount
    /\ last' = [last EXCEPT !.op = "charge"]
    /\ feed_task' = [feed_task EXCEPT !.pos = "await"]
    /\ UNCHANGED <<cfg, mode, running, exited, clock_open, detectors,
                   token_id_to_outcome, token_id_to_slug, current_markets,
                   was_in_window, ws_should_run, ws_open, poll_idx, windows,
                   update_count, siglog, orders, ticks>>

NextSteps == StepRun \/ WsConnect \/ StepRecv \/ StepUpdate \/ StepCheck
             \/ StepOrder \/ StepCharge

\* the push-feed bot trading live with the 50/30/20 schedule
InitSteps ==
    /\ InitWs
    /\ ~cfg.dry_run
    /\ cfg.scale_in_pcts = <<50, 30, 20>>

SpecSteps == InitSteps /\ [][NextSteps]_vars

----------------------------------------------------------------------------
(* Disruptions of the feed and the reconnection loop of _run_websocket *)

\* consecutive sleeps counted (the count saturates there)
MaxWaits == 8

\* what can end a connection or a connection attempt: the exceptions
\* _run_websocket names, any other exception, and a stream that ends
Disruptions ==
    {"ConnectionClosed", "WebSocketException", "Exception", "EndOfStream"}

\* mutant: only a closed connection is survived
LoopsOn_OnlyClosed(exc) == exc \in {"ConnectionClosed", "EndOfStream"}

\* the except clauses of lines 420-428: every exception but CancelledError
\* is logged and the while loop goes on
LoopsOn(exc) == exc # "CancelledError"

\* ws_connect, _subscribe_to_markets or the async for raises, or the stream
\* ends, while the feed is meant to run: the connection is gone (finally:
\* self._ws = None) and the task goes to the sleep of lines 432-435
WsError ==
    /\ mode = "ws"
    /\ ws_should_run
    /\ feed_task.pos = "await"
    /\ \E exc \in Disruptions :
         /\ feed_task' = [feed_task EXCEPT
                !.pos = IF LoopsOn(exc) THEN "backoff" ELSE "done"]
         /\ last' = [Idle EXCEPT !.op = "ws_error", !.name = exc]
    /\ ws_open' = FALSE
    /\ UNCHANGED <<cfg, mode, running, exited, clock_open, detectors,
                   budget_remaining, token_id_to_outcome, token_id_to_slug,
                   current_markets, was_in_window, ws_should_run, poll_idx,
                   windows, update_count, siglog, orders, ticks>>

\* mutant: the delay doubles without a ceiling
NextDelay_Unbounded(delay) == delay * 2

\* delay = min(delay * 2, MAX_RECONNECT_DELAY) (line 435)
NextDelay(delay) == Min(delay * 2, MAX_RECONNECT_DELAY)

\* lines 432-435: await asyncio.sleep(delay), then the delay is doubled
WsBackoff ==
    /\ mode = "ws"
    /\ ws_should_run
    /\ feed_task.pos = "backoff"
    /\ feed_task' = [feed_task EXCEPT !.pos = "await",
                                      !.waited = feed_task.delay,
                                      !.delay = NextDelay(@),
                                      !.waits = Min(@ + 1, MaxWaits)]
    /\ last' = [Idle EXCEPT !.op = "backoff"]
    /\ UNCHANGED <<cfg, mode, running, exited, clock_open, detectors,
                   budget_remaining, token_id_to_outcome, token_id_to_slug,
                   current_markets, was_in_window, ws_should_run, ws_open,
                   poll_idx, windows, update_count, siglog, orders, ticks>>

NextReconnect == NextSteps \/ WsError \/ WsBackoff

\* the push-feed bot trading live with $100 and the 50/30/20 schedule
InitReconnect ==
    /\ InitSteps
    /\ cfg.max_trade_size_usd = 100 * OneDollar

SpecReconnect == InitReconnect /\ [][NextReconnect]_vars

----------------------------------------------------------------------------
(* An outage early in one window: the feed has delivered a few quotes, too *)
(* few for a signal (MinObservations), when connections start to fail.     *)

MaxOutageQuotes == 2
MaxOutageWindows == 1

OutageRun ==
    /\ StepRun
    /\ windows' <= MaxOutageWindows

OutageRecv ==
    /\ ticks < MaxOutageQuotes
    /\ StepRecv

NextOutage == OutageRun \/ WsConnect \/ OutageRecv \/ StepUpdate
              \/ StepCheck \/ WsError \/ WsBackoff

\* asyncio.sleep(delay) returns, and ws_connect returns or raises
SpecOutage ==
    /\ InitReconnect
    /\ [][NextOutage]_vars
    /\ WF_vars(WsBackoff)
    /\ WF_vars(WsConnect \/ WsError)

----------------------------------------------------------------------------
(* The keep-alive task of a connection: _ping_loop runs beside the loop    *)
(* over the feed, on the same event loop. ws_connect is called with        *)
(* ping_interval=None, so the library sends no pings of its own.           *)

\* the ping task is alive: the connection it was created for is open and the
\* feed is meant to run (line 328)
PingRuns == mode = "ws" /\ ws_open /\ ws_should_run

\* the ping task takes a step only while the feed task is suspended
PingTurn == PingRuns /\ Yields(feed_task.pos)

\* lines 330-332: the sleep of PING_INTERVAL is over and a ping is sent
PingSend ==
    /\ PingTurn
    /\ feed_task.ping = "sleep"
    /\ feed_task' = [feed_task EXCEPT !.ping = "pong"]
    /\ last' = [Idle EXCEPT !.op = "ping"]
    /\ UNCHANGED <<cfg, mode, running, exited, clock_open, detectors,
                   budget_remaining, token_id_to_outcome, token_id_to_slug,
                   current_markets, was_in_window, ws_should_run, ws_open,
                   poll_idx, windows, update_count, siglog, orders, ticks>>

\* what the wait for the pong can end in (lines 333-339)
PongOutcomes == {"pong", "TimeoutError", "Exception"}

\* lines 333-339: the pong arrives and the loop goes round, or the wait
\* times out or raises: a log line and break, which ends the task. Nothing
\* else is written: self._ws is not closed and the feed task is not told.
PingWait ==
    /\ PingTurn
    /\ feed_task.ping = "pong"
    /\ \E res \in PongOutcomes :
         /\ feed_task' = [feed_task EXCEPT
                !.ping = IF res = "pong" THEN "sleep"
                         ELSE IF res = "TimeoutError" THEN "timed_out"
                         ELSE "failed"]
         /\ last' = [Idle EXCEPT !.op = "pong_wait", !.name = res]
    /\ UNCHANGED <<cfg, mode, running, exited, clock_open, detectors,
                   budget_remaining, token_id_to_outcome, token_id_to_slug,
                   current_markets, was_in_window, ws_should_run, ws_open,
                   poll_idx, windows, update_count, siglog, orders, ticks>>

\* ws_connect returns or raises: a step of the task with no connection
WsAttempt == ~ws_open /\ (WsConnect \/ WsError)

NextPing == NextOutage \/ PingSend \/ PingWait

\* the handling of a quote runs to its end, the sleeps return, ws_connect
\* returns or raises, and the wait for a pong ends one way or another; what
\* the far end does to an open connection is not the program's to decide
SpecPing ==
    /\ InitReconnect
    /\ [][NextPing]_vars
    /\ WF_vars(StepUpdate \/ StepCheck)
    /\ WF_vars(WsBackoff)
    /\ WF_vars(WsAttempt)
    /\ WF_vars(PingSend)
    /\ WF_vars(PingWait)

----------------------------------------------------------------------------
(* Properties of the controllers *)

Controller == mode \in {"poll", "ws"}

\* the step handled signals (a polling pass over one market or a feed message)
SignalStep == last'.op \in {"poll_market", "ws_message"}

\* the notional of the spec, written out: min(remaining * pct / 100, remaining)
SpecNotional(remaining, pct) ==
    IF (remaining * pct) \div 100 < remaining
    THEN (remaining * pct) \div 100 ELSE remaining

\* the records of a step start from the budget before it, follow one another
\* and end in the budget after it
ExecChain ==
    /\ last'.execs # <<>> => last'.execs[1].before = budget_remaining
    /\ \A k \in 1..(Len(last'.execs) - 1) :
         last'.execs[k + 1].before = last'.execs[k].after
    /\ budget_remaining' = IF last'.execs = <<>> THEN budget_remaining
                           ELSE last'.execs[Len(last'.execs)].after

\* C4: in both controllers the remaining budget is never negative, no order
\* is for more than the remaining budget, and a budget_pct above 100 gives an
\* order for the whole remainder.
C4_BudgetNonNegative ==
    Controller =>
        /\ budget_remaining >= 0
        /\ \A k \in 1..Len(last.execs) :
             LET e == last.execs[k]
             IN  /\ e.before >= 0 /\ e.after >= 0
                 /\ e.called => e.amount <= e.before
                 /\ (e.called /\ e.pct > 100) => e.amount = e.before

\* C4 witness: an order for 150% of the budget was clamped to all of it
C4_Witness ==
    /\ Controller
    /\ \E k \in 1..Len(last.execs) :
         /\ last.execs[k].called /\ last.execs[k].success
         /\ last.execs[k].pct > 100
         /\ last.execs[k].amount = last.execs[k].before
    /\ budget_remaining = 0

\* C5: a signal whose notional is below $1 leads to no buy_market_order call
\* and leaves the remaining budget as it was.
C5_FloorSkips ==
    [][ SignalStep =>
          /\ ExecChain
          /\ \A k \in 1..Len(last'.execs) :
               LET e == last'.execs[k]
               IN  SpecNotional(e.before, e.pct) < OneDollar =>
                       (~e.called /\ e.after = e.before) ]_vars

\* C5 witness: 50% of a remaining $1.50 was asked for and no order was sent
C5_Witness ==
    /\ Controller
    /\ ~cfg.dry_run
    /\ Len(last.execs) = 1
    /\ last.execs[1].before = 15000 /\ last.execs[1].pct = 50
    /\ ~last.execs[1].called
    /\ budget_remaining = 15000

\* C6: a failed order leaves the remaining budget unchanged and the window's
\* processing in place; a successful one lowers the budget by its amount.
C6_FailureKeepsBudget ==
    [][ SignalStep =>
          /\ ExecChain
          /\ \A k \in 1..Len(last'.execs) :
               LET e == last'.execs[k]
               IN  /\ (e.called /\ ~e.success) => e.after = e.before
                   /\ (e.called /\ e.success) => e.after = e.before - e.amount
          /\ /\ was_in_window' = was_in_window
             /\ current_markets' = current_markets
             /\ ws_should_run' = ws_should_run
             /\ ws_open' = ws_open
             /\ DOMAIN detectors' = DOMAIN detectors ]_vars

\* C6 witness: after an order of the window has failed, a later quote led to
\* an order that succeeded
C6_Witness ==
    /\ Controller
    /\ orders.failed
    /\ Len(last.execs) = 1
    /\ last.execs[1].called /\ last.execs[1].success
    /\ budget_remaining = last.execs[1].before - last.execs[1].amount
    /\ budget_remaining < cfg.max_trade_size_usd

\* successful amounts among the records k.. of a step
RECURSIVE SpentFrom(_, _)
SpentFrom(execs, k) ==
    IF k > Len(execs) THEN 0
    ELSE (IF execs[k].called /\ execs[k].success THEN execs[k].amount ELSE 0)
         + SpentFrom(execs, k + 1)

C8_Routing ==
    [][ last'.op = "ws_message" =>
          \A sl \in DOMAIN detectors :
              sl \notin last'.markets =>
                  /\ sl \in DOMAIN detectors'
                  /\ detectors'[sl] = detectors[sl]
                  /\ siglog'[sl] = siglog[sl] ]_vars

\* C8 witness: quotes for fri's "X" have been applied while sat's "X" still
\* holds nothing but its baseline
C8_Witness ==
    /\ mode = "ws"
    /\ last.op = "ws_message"
    /\ last.markets = {"fri"}
    /\ Tracked("fri", "X") /\ Tracked("sat", "X")
    /\ Len(StateNamed("fri", "X").price_history) >= MinObservations
    /\ StateNamed("sat", "X").price_history = <<10>>

\* a detector as a window start leaves it for market sl: every outcome of the
\* market tracked under its own token with a history of the baseline alone,
\* no lock and nothing counted
FreshDetector(det, sl) ==
    /\ det.baseline_set
    /\ det.locked_outcome = NoOutcome
    /\ det.total_signals = 0
    /\ Len(det.outcomes) = Len(MarketOutcomes(sl))
    /\ \A i \in 1..Len(det.outcomes) :
         /\ det.outcomes[i].outcome_name = MarketOutcomes(sl)[i].outcome
         /\ det.outcomes[i].token_id = MarketOutcomes(sl)[i].token_id
         /\ det.outcomes[i].baseline_price # NoPrice
         /\ det.outcomes[i].current_price = det.outcomes[i].baseline_price
         /\ det.outcomes[i].price_history = << det.outcomes[i].baseline_price >>
         /\ det.outcomes[i].trigger_count = 0
         /\ ~det.outcomes[i].triggered

\* C15: the step in which a controller sees the window open sets the budget
\* to the configured maximum and leaves exactly one fresh detector per
\* discovered market, each baselined from its own market, with no quote
\* handled and no order sent in that step.
C15_WindowStart ==
    [][ (Controller /\ ~was_in_window /\ was_in_window') =>
          /\ budget_remaining' = cfg.max_trade_size_usd
          /\ DOMAIN detectors' = { current_markets'[k] : k \in 1..Len(current_markets') }
          /\ \A sl \in DOMAIN detectors' : FreshDetector(detectors'[sl], sl)
          /\ \A sl \in Slugs : siglog'[sl] = <<>>
          /\ orders'.spent = 0
          /\ last'.sig = <<>> /\ last'.execs = <<>> ]_vars

\* C15 witness: a second window has just started; the budget is whole and the
\* two detectors stand at the different baselines of their markets
C15_Witness ==
    /\ Controller
    /\ windows = 2
    /\ last.op = "window_start"
    /\ ~cfg.dry_run
    /\ budget_remaining = cfg.max_trade_size_usd
    /\ DOMAIN detectors = {"fri", "sat"}
    /\ detectors["fri"].outcomes[1].baseline_price = 10
    /\ detectors["sat"].outcomes[1].baseline_price = 20
    /\ detectors["sat"].outcomes[1].price_history = <<20>>

\* C16: when a controller has handled the end of the window, and for as long
\* as it stays outside, there are no detectors, the feed is down and no poll
\* is in progress; no step handles a quote, checks a trigger or sends an
\* order, and the budget and the update count stay as they are.
C16_WindowEnd ==
    [][ (Controller /\ ~was_in_window') =>
          /\ DOMAIN detectors' = {}
          /\ current_markets' = <<>>
          /\ ~ws_should_run' /\ ~ws_open'
          /\ poll_idx' = 0
          /\ last'.op \notin {"poll_market", "ws_message", "ws_connect"}
          /\ last'.sig = <<>> /\ last'.execs = <<>>
          /\ update_count' = update_count
          /\ budget_remaining' = budget_remaining
          /\ orders' = orders ]_vars

\* C16 witness: the end of a window in which quotes were applied and money
\* was spent has just been handled
C16_Witness ==
    /\ mode = "ws"
    /\ last.op = "window_end"
    /\ ~was_in_window
    /\ update_count > 0
    /\ orders.spent > 0
    /\ DOMAIN detectors = {}
    /\ ~ws_should_run /\ ~ws_open

\* C17: with dry_run set no order reaches the exchange, whatever signals
\* come; where buy_market_order is called it reports success.
C17_DryRun ==
    (Controller /\ cfg.dry_run) =>
        \A k \in 1..Len(last.execs) :
            /\ ~last.execs[k].posted
            /\ last.execs[k].called => last.execs[k].success

\* C17 witness: in a dry run the polling controller has called
\* buy_market_order for a signal and got the synthetic success
C17_Witness ==
    /\ mode = "poll"
    /\ cfg.dry_run
    /\ Len(last.execs) = 1
    /\ last.execs[1].called
    /\ last.execs[1].success
    /\ ~last.execs[1].posted
    /\ last.execs[1].amount >= OneDollar

\* C18: reset() leaves the detector as a new one (no tracked outcome, no lock,
\* baseline flag down, signal count and spent share at zero) and leaves the
\* thresholds and the schedule alone; a detector whose baseline flag is down
\* answers update_prices with no signal and is left exactly as it was, so
\* nothing moves between reset() and the next set_baseline.
C18_Reset ==
    [][ mode = "detector" =>
          /\ last'.op = "reset" =>
                /\ detectors'[DetSlug] = NewDetector
                /\ cfg' = cfg
          /\ (~detectors[DetSlug].baseline_set /\ last'.op = "update_prices") =>
                /\ last'.sig = <<>>
                /\ detectors' = detectors
                /\ siglog' = siglog ]_vars

\* reset() has just run on a detector that was locked, and nothing is left
C18_Witness ==
    /\ mode = "detector"
    /\ last.op = "reset"
    /\ last.name # NoOutcome
    /\ detectors[DetSlug].outcomes = <<>>
    /\ detectors[DetSlug].locked_outcome = NoOutcome
    /\ ~detectors[DetSlug].baseline_set

\* names under which the detector holds an OutcomeState
TrackedNames(det) == { det.outcomes[i].outcome_name : i \in 1..Len(det.outcomes) }

\* C19: set_baseline raises the baseline flag and tracks exactly the outcomes
\* whose book had a best ask, each at that ask; an outcome it left out stays
\* out through every later update_prices and per-quote feed of the session, a
\* quote fed for it changes nothing in the detector, and no signal names it.
C19_Untracked ==
    [][ mode = "detector" =>
          LET det  == detectors[DetSlug]
              det1 == detectors'[DetSlug]
              mouts == MarketOutcomes(DetSlug)
          IN  /\ last'.op = "set_baseline" =>
                    /\ det1.baseline_set
                    /\ \A i \in 1..Len(mouts) :
                         LET k == IndexOf(det1.outcomes, mouts[i].outcome)
                         IN  IF last'.quotes[i] = NoPrice
                             THEN k = 0
                             ELSE /\ k # 0
                                  /\ det1.outcomes[k].baseline_price = last'.quotes[i]
              /\ last'.op \in {"update_prices", "feed_price"} =>
                    \A i \in 1..Len(mouts) :
                        mouts[i].outcome \notin TrackedNames(det) =>
                            /\ mouts[i].outcome \notin TrackedNames(det1)
                            /\ \A k \in 1..Len(last'.sig) :
                                   last'.sig[k].outcome_name # mouts[i].outcome
              /\ (last'.op = "feed_price" /\ last'.name \notin TrackedNames(det)) =>
                    /\ det1 = det
                    /\ last'.sig = <<>> ]_vars

\* a quote has just been fed for an outcome that had no best ask at the
\* baseline, while another outcome of the market is tracked
C19_Witness ==
    /\ mode = "detector"
    /\ last.op = "feed_price"
    /\ detectors[DetSlug].baseline_set
    /\ last.name \notin TrackedNames(detectors[DetSlug])
    /\ TrackedNames(detectors[DetSlug]) # {}

\* C20: once stop() has lowered _running the main loop of either controller
\* is eventually left, _running is not raised again, and from then on the
\* push-feed bot applies no message: its detectors, its budget, its orders
\* and its count of applied updates stay as stop() found them.
C20_Stop ==
    /\ (Controller /\ ~running) ~> exited
    /\ [][ (Controller /\ ~running) =>
              /\ ~running'
              /\ mode = "ws" =>
                    /\ last'.op # "ws_message"
                    /\ detectors' = detectors
                    /\ budget_remaining' = budget_remaining
                    /\ orders' = orders
                    /\ update_count' = update_count ]_vars

\* the push-feed bot was stopped inside a window, with money left and updates
\* applied; the feed task has left its connection and run() has returned
C20_Witness ==
    /\ mode = "ws"
    /\ exited
    /\ was_in_window
    /\ update_count > 0
    /\ ~BelowFloor(budget_remaining)
    /\ ~ws_open
    /\ detectors # NoDetectors

\* C21: in the push-feed bot, while the clock is outside the monitoring
\* window no message of the feed is applied: a step that handles a message
\* leaves the detectors, the count of applied updates, the budget and the
\* orders as they were, also when run() has not yet seen the window end.
C21_ClosedWindow ==
    [][ (mode = "ws" /\ ~clock_open /\ last'.op = "ws_message") =>
          /\ detectors' = detectors
          /\ update_count' = update_count
          /\ budget_remaining' = budget_remaining
          /\ orders' = orders ]_vars

\* C22: whichever way the quotes reach the detector, in one update_prices
\* call or one by one from the push feed, a signal is for the tracked outcome
\* whose z-score is positive and not below that of any other tracked outcome.
C22_BestMoverOnly ==
    (mode = "detector" /\ last.op \in {"update_prices", "feed_price"}) =>
        \A k \in 1..Len(last.sig) :
            /\ Tracked(last.slug, last.sig[k].outcome_name)
            /\ LET z == get_zscore(StateNamed(last.slug, last.sig[k].outcome_name))
                   outs == detectors[last.slug].outcomes
               IN  /\ ~z.none
                   /\ z.sgn > 0
                   /\ \A i \in 1..Len(outs) :
                        get_zscore(outs[i]).none \/ ~ZGt(get_zscore(outs[i]), z)

\* two or more tracked outcomes hold the highest positive z-score of the
\* tick, and it is the same double for all of them
TiedTop(outs) ==
    /\ Cardinality(TopMovers(outs)) >= 2
    /\ \A i, j \in TopMovers(outs) : SameDouble(outs[i], outs[j])

C24_Armed ==
    [][ mode = "detector" =>
          LET det  == detectors[DetSlug]
              det1 == detectors'[DetSlug]
          IN  /\ last'.op = "set_baseline" =>
                    /\ det1.baseline_set
                    /\ det1.locked_outcome = NoOutcome
              /\ (det.locked_outcome = NoOutcome /\ det1.locked_outcome # NoOutcome) =>
                    /\ last'.sig # <<>>
                    /\ last'.sig[1].outcome_name = det1.locked_outcome
              /\ (det.baseline_set /\ ~det1.baseline_set) => last'.op = "reset" ]_vars

\* C25: a call that feeds quotes and returns no signal, whatever made the
\* trigger check fail, leaves the lock, budget_spent_pct and total_signals
\* of the detector and the triggered flag and trigger_count of every tracked
\* outcome as they were.
C25_RejectedKeeps ==
    [][ (mode = "detector" /\ last'.op \in {"update_prices", "feed_price"}
           /\ last'.sig = <<>>) =>
          LET det  == detectors[DetSlug]
              det1 == detectors'[DetSlug]
          IN  /\ det1.locked_outcome = det.locked_outcome
              /\ det1.budget_spent_pct = det.budget_spent_pct
              /\ det1.total_signals = det.total_signals
              /\ Len(det1.outcomes) = Len(det.outcomes)
              /\ \A i \in 1..Len(det.outcomes) :
                    /\ det1.outcomes[i].trigger_count = det.outcomes[i].trigger_count
                    /\ det1.outcomes[i].triggered = det.outcomes[i].triggered ]_vars

\* a quote was fed for an outcome that passes the three gates on the quote
\* but is locked out by another outcome: no signal, and its slots untouched
C25_Witness ==
    /\ mode = "detector"
    /\ last.op = "feed_price"
    /\ last.sig = <<>>
    /\ detectors[DetSlug].locked_outcome \notin {NoOutcome, last.name}
    /\ Tracked(DetSlug, last.name)
    /\ PassesGates(StateNamed(DetSlug, last.name), cfg)
    /\ StateNamed(DetSlug, last.name).trigger_count = 0

\* the feed task is inside the handling of one quote
InQuote == feed_task.pos \in {"feed", "check", "execute", "charge"}

\* the outcome the quote in hand is for: last carries the quote
QuotedState ==
    detectors[last.slug].outcomes[
        IndexOf(detectors[last.slug].outcomes, last.name)]

\* at the trigger check the quote in hand is the outcome's last observation,
\* and at the charge the budget is the one the order was sized from
QuoteWhole ==
    (mode = "ws" /\ InQuote) =>
        /\ last.slug \in DOMAIN detectors
        /\ IndexOf(detectors[last.slug].outcomes, last.name) # 0
        /\ feed_task.pos = "check" =>
              /\ QuotedState.current_price = last.price
              /\ QuotedState.price_history # <<>>
              /\ QuotedState.price_history[Len(QuotedState.price_history)]
                    = last.price
        /\ feed_task.pos = "charge" =>
              budget_remaining = last.execs[1].before

\* a step taken while a quote is in hand is the next statement of that
\* quote's handling: it is neither the main loop nor another quote
QuoteUninterrupted ==
    (mode = "ws" /\ InQuote) =>
        /\ last'.op \in {"update", "check", "order", "charge"}
        /\ last'.slug = last.slug /\ last'.name = last.name
        /\ last'.price = last.price
        /\ <<was_in_window, ws_should_run, ws_open, current_markets, windows,
             update_count>>' =
           <<was_in_window, ws_should_run, ws_open, current_markets, windows,
             update_count>>
        /\ DOMAIN detectors' = DOMAIN detectors
        /\ feed_task.pos = "charge" =>
              budget_remaining' = last.execs[1].after

\* C26: the handling of one quote (price update, trigger check, signal,
\* order, budget decrement) runs without another quote's handling or the main
\* loop's window handling in between: the z-score is computed on a history
\* that ends with the quote, and the budget charged is the budget read
C26_Atomic == []QuoteWhole /\ [][QuoteUninterrupted]_vars

\* a quote went through all five statements: an order was sent and charged
C26_Witness ==
    /\ mode = "ws"
    /\ last.op = "charge"
    /\ last.execs # <<>>
    /\ budget_remaining = last.execs[1].after
    /\ budget_remaining < cfg.max_trade_size_usd

\* the reconnect delay is a power of two seconds capped at the ceiling: after
\* n sleeps since it was last reset it is min(2^n, 60)
DelayInRange ==
    mode = "ws" =>
        /\ feed_task.delay >= RECONNECT_DELAY
        /\ feed_task.delay <= MAX_RECONNECT_DELAY
        /\ feed_task.delay = Min(Pow2(feed_task.waits), MAX_RECONNECT_DELAY)
        /\ last.op = "backoff" =>
              feed_task.waited =
                  Min(Pow2(feed_task.waits - 1), MAX_RECONNECT_DELAY)

\* a sleep lasts the delay as it stood and doubles it up to the ceiling; a
\* connection and a new task put it back to the base delay
DelaySteps ==
    /\ last'.op = "backoff" =>
          /\ feed_task'.waited = feed_task.delay
          /\ feed_task'.delay = Min(2 * feed_task.delay, MAX_RECONNECT_DELAY)
    /\ last'.op \in {"ws_connect", "window_start"} =>
          feed_task'.delay = RECONNECT_DELAY
    /\ last'.op \notin {"backoff", "ws_connect", "window_start"} =>
          feed_task'.delay = feed_task.delay

\* C27: the reconnect delay starts at 1s, doubles after each wait up to 60s,
\* stays within [1, 60] and is put back to 1s by every successful
\* connection: consecutive waits last 1, 2, 4, ..., 32, 60, 60 seconds
C27_Backoff == []DelayInRange /\ [][DelaySteps]_vars

\* the eighth sleep in a row: the second one of 60 seconds
C27_Witness ==
    /\ mode = "ws"
    /\ last.op = "backoff"
    /\ feed_task.waits >= 8
    /\ feed_task.waited = MAX_RECONNECT_DELAY
    /\ feed_task.delay = MAX_RECONNECT_DELAY

\* the feed task is in the sleep that follows a closure or an error
InBackoff == mode = "ws" /\ ws_should_run /\ feed_task.pos = "backoff"

\* the feed task is in ws_connect
Connecting ==
    mode = "ws" /\ ws_should_run /\ ~ws_open /\ feed_task.pos = "await"

\* a closure, an error or the sleep after it leaves the session, the task
\* and the detectors as they were
DisruptionKeeps ==
    last'.op \in {"ws_error", "backoff"} =>
        /\ feed_task'.pos \in {"backoff", "await"}
        /\ <<running, exited, ws_should_run, was_in_window, current_markets,
             detectors, budget_remaining, siglog, orders>>' =
           <<running, exited, ws_should_run, was_in_window, current_markets,
             detectors, budget_remaining, siglog, orders>>

\* a connection subscribes every token of the current markets
Resubscribes ==
    last'.op = "ws_connect" =>
        \A k \in 1..Len(current_markets') :
          \A j \in 1..Len(MarketOutcomes(current_markets'[k])) :
            LET o == MarketOutcomes(current_markets'[k])[j]
            IN  /\ o.token_id \in DOMAIN token_id_to_outcome'
                /\ o.token_id \in DOMAIN token_id_to_slug'
                /\ token_id_to_slug'[o.token_id] = current_markets'[k]

\* C28: while the feed is supposed to run, a closure or an error is followed
\* by the sleep and then by a new connection attempt, which on success
\* subscribes all tokens of the current markets; the disruption does not end
\* the session or the task and does not touch the detectors
C28_Reconnects ==
    /\ InBackoff ~> (~ws_should_run \/ last.op = "backoff")
    /\ Connecting ~> (~ws_should_run \/ last.op \in {"ws_connect", "ws_error"})
    /\ [][DisruptionKeeps /\ Resubscribes]_vars

\* a connection was lost after quotes had been taken and the task has
\* connected again: the detectors still hold the quotes
C28_Witness ==
    /\ mode = "ws"
    /\ last.op = "ws_connect"
    /\ ticks > 0
    /\ feed_task.waited > 0
    /\ token_id_to_outcome # <<>>
    /\ \E sl \in DOMAIN detectors :
         \E k \in 1..Len(detectors[sl].outcomes) :
            Len(detectors[sl].outcomes[k].price_history) > 1

\* an iteration of run() that ends inside a window with less than $1 left
\* leaves the feed stopped
ExhaustedStops ==
    (/\ mode = "ws"
     /\ last'.op \in {"window_start", "loop"}
     /\ was_in_window'
     /\ BelowFloor(budget_remaining')) =>
        (~ws_should_run' /\ ~ws_open')

\* the feed is started at a window start and nowhere else
StartedByWindow ==
    (mode = "ws" /\ ~ws_should_run /\ ws_should_run') =>
        last'.op = "window_start"

\* a signal that finds less than $1 left places no order
NoOrderBelowFloor ==
    (mode = "ws" /\ last'.op = "ws_message") =>
        \A k \in 1..Len(last'.execs) :
            BelowFloor(last'.execs[k].before) =>
                (~last'.execs[k].called /\ ~last'.execs[k].posted)

\* C29: in the push-feed bot, once less than $1 is left inside a window the
\* main loop stops the feed, the feed is not started again before the next
\* window start, and no order is placed in the rest of the window
C29_Exhausted == [][ExhaustedStops /\ StartedByWindow /\ NoOrderBelowFloor]_vars

\* the main loop has just stopped the feed of an open window with less than
\* $1 left, after orders had been placed
C29_Witness ==
    /\ mode = "ws"
    /\ last.op = "loop"
    /\ was_in_window
    /\ BelowFloor(budget_remaining)
    /\ orders.spent > 0
    /\ ~ws_should_run
    /\ current_markets # <<>>

\* the signals of the step are measured against the baseline their outcome
\* had before the step
MeasuredFromBaseline(det, sigs) ==
    \A n \in 1..Len(sigs) :
        LET k == IndexOf(det.outcomes, sigs[n].outcome_name)
        IN  /\ k # 0
            /\ sigs[n].baseline_price = det.outcomes[k].baseline_price
            /\ sigs[n].price_change =
                  sigs[n].current_price - det.outcomes[k].baseline_price

\* C30: an outcome's baseline_price is written by set_baseline alone: an
\* update_prices call or a per-quote feed, with its trigger check and its
\* signal, leaves every tracked outcome's baseline as it was, and the signal
\* reports the change from that baseline
C30_BaselineFixed ==
    [][ (mode = "detector" /\ last'.op \in {"update_prices", "feed_price"}) =>
          LET det  == detectors[DetSlug]
              det1 == detectors'[DetSlug]
          IN  /\ Len(det1.outcomes) = Len(det.outcomes)
              /\ \A k \in 1..Len(det.outcomes) :
                    /\ det1.outcomes[k].outcome_name = det.outcomes[k].outcome_name
                    /\ det1.outcomes[k].baseline_price =
                          det.outcomes[k].baseline_price
              /\ MeasuredFromBaseline(det, last'.sig) ]_vars

\* a signal has just been emitted for an outcome that has moved away from its
\* baseline over several quotes
C30_Witness ==
    /\ mode = "detector"
    /\ last.op \in {"update_prices", "feed_price"}
    /\ last.sig # <<>>
    /\ last.sig[1].baseline_price # last.sig[1].current_price
    /\ \E k \in 1..Len(detectors[DetSlug].outcomes) :
         /\ detectors[DetSlug].outcomes[k].outcome_name = last.sig[1].outcome_name
         /\ detectors[DetSlug].outcomes[k].baseline_price = last.sig[1].baseline_price
         /\ Len(detectors[DetSlug].outcomes[k].price_history) >= 5

\* the history of a baselined OutcomeState ends with its current price
HistoryEndsWithCurrent ==
    (mode = "outcome" /\ Os.baseline_price # NoPrice) =>
        /\ Os.price_history # <<>>
        /\ Os.price_history[Len(Os.price_history)] = Os.current_price

\* set_baseline(p) leaves the history [p], both prices at p and no trigger
BaselineSeeds ==
    (mode = "outcome" /\ last'.op = "set_baseline") =>
        LET st == detectors'[OsSlug].outcomes[1]
        IN  /\ st.price_history = << last'.price >>
            /\ st.baseline_price = last'.price
            /\ st.current_price = last'.price
            /\ st.trigger_count = 0

\* C31: in every OutcomeState that has a baseline the last element of
\* price_history is current_price, and right after set_baseline(p) the
\* history is [p], baseline_price = current_price = p and trigger_count = 0
C31_HistoryTail == []HistoryEndsWithCurrent /\ [][BaselineSeeds]_vars

\* set_baseline has just run on an OutcomeState that had triggered (the
\* detector still holds the lock it took then)
C31_Witness ==
    /\ mode = "outcome"
    /\ last.op = "set_baseline"
    /\ detectors[OsSlug].locked_outcome = Os.outcome_name
    /\ Os.trigger_count = 0
    /\ Os.price_history = << Os.current_price >>

\* the book gives no usable quote: no book, no asks, a price that is
\* missing, unparseable or not positive
Unusable(order_book) ==
    \/ ~order_book.present
    \/ order_book.asks = <<>>
    \/ order_book.asks[1].kind # "number"
    \/ order_book.asks[1].value <= 0

\* C32: a quote with no price, an empty ask list, an unparseable or
\* non-positive price is skipped: the outcome's OutcomeState is not created
\* at the baseline and is left as it was by update_prices
C32_Skipped ==
    [][ (mode = "detector" /\ last'.op \in {"set_baseline", "update_prices"}) =>
          LET det  == detectors[DetSlug]
              det1 == detectors'[DetSlug]
              mouts == MarketOutcomes(DetSlug)
          IN  \A i \in 1..Len(mouts) :
                Unusable(last'.quotes[i]) =>
                   LET k  == IndexOf(det.outcomes, mouts[i].outcome)
                       k1 == IndexOf(det1.outcomes, mouts[i].outcome)
                   IN  IF k = 0 THEN k1 = 0
                       ELSE k1 # 0 /\ det1.outcomes[k1] = det.outcomes[k] ]_vars

\* the remaining budget is the maximum less the successful orders of the
\* window
BudgetAccount ==
    Controller => budget_remaining = cfg.max_trade_size_usd - orders.spent

\* the budget goes down or stays, except at a window start, which sets it to
\* the maximum
BudgetSteps ==
    Controller =>
        /\ last'.op = "window_start" =>
              budget_remaining' = cfg.max_trade_size_usd
        /\ last'.op # "window_start" =>
              /\ budget_remaining' <= budget_remaining
              /\ budget_remaining' =
                    budget_remaining - SpentFrom(last'.execs, 1)

\* C33: within a window the remaining budget never increases and equals the
\* configured maximum less the amounts of the window's successful orders; it
\* goes back to the maximum at a window start and nowhere else
C33_BudgetAccount == []BudgetAccount /\ [][BudgetSteps]_vars

\* in the second window, an order sized from what an earlier order of that
\* window had left has just succeeded
C33_Witness ==
    /\ Controller
    /\ windows = 2
    /\ Len(last.execs) = 1
    /\ last.execs[1].called /\ last.execs[1].success
    /\ last.execs[1].before < cfg.max_trade_size_usd
    /\ orders.spent > last.execs[1].amount
    /\ budget_remaining = cfg.max_trade_size_usd - orders.spent

\* the position of the outcome traded under token in the detector
TokenIndex(det, token) ==
    IF \E k \in 1..Len(det.outcomes) : det.outcomes[k].token_id = token
    THEN CHOOSE k \in 1..Len(det.outcomes) : det.outcomes[k].token_id = token
    ELSE 0

\* C34: a signal uses up its scale-in slot whatever becomes of the order
\* (sent and accepted, sent and refused, dropped for being under $1, or only
\* logged): the outcome's trigger_count goes up by one, the detector is locked
\* to it and its spent share grows by the signal's percentage, which is the
\* schedule's entry for that trigger
C34_SlotUsed ==
    [][ SignalStep =>
          \A n \in 1..Len(last'.execs) :
             LET e    == last'.execs[n]
                 det  == detectors[e.slug]
                 det1 == detectors'[e.slug]
                 k    == TokenIndex(det, e.token_id)
             IN  /\ k # 0
                 /\ det1.outcomes[k].trigger_count =
                       det.outcomes[k].trigger_count + 1
                 /\ det1.outcomes[k].triggered
                 /\ e.pct = cfg.scale_in_pcts[det1.outcomes[k].trigger_count]
                 /\ det1.locked_outcome = det.outcomes[k].outcome_name
                 /\ det1.budget_spent_pct = det.budget_spent_pct + e.pct ]_vars

\* the first order of the window was refused and the only order that went
\* through since is the one of the second slot, just now
C34_Witness ==
    /\ Controller
    /\ orders.failed
    /\ Len(last.execs) = 1
    /\ last.execs[1].pct = 30
    /\ last.execs[1].called /\ last.execs[1].success
    /\ orders.spent = last.execs[1].amount

\* the detector is locked to one outcome and another one alone has the
\* highest positive z-score of the tick
OutrunLock(det) ==
    /\ det.locked_outcome # NoOutcome
    /\ \E b \in 1..Len(det.outcomes) :
         /\ TopMovers(det.outcomes) = {b}
         /\ det.outcomes[b].outcome_name # det.locked_outcome

\* C35: update_prices checks only the highest-z outcome of the tick: when
\* the detector is locked to A and another outcome has the higher z-score,
\* the call returns no signal, whatever A's own move
C35_LockedOut ==
    (mode = "detector" /\ last.op = "update_prices"
       /\ OutrunLock(detectors[DetSlug])) =>
        last.sig = <<>>

\* no signal came back although the locked outcome passes every gate and has
\* a slot left: another outcome had the higher z-score
C35_Witness ==
    /\ mode = "detector"
    /\ last.op = "update_prices"
    /\ last.sig = <<>>
    /\ OutrunLock(detectors[DetSlug])
    /\ LET det == detectors[DetSlug]
           a == IndexOf(det.outcomes, det.locked_outcome)
       IN  /\ a # 0
           /\ PassesGates(det.outcomes[a], cfg)
           /\ SlotAvailable(det.outcomes[a], cfg)

\* the outcomes of a detector that have triggered at least once
Triggered(det) ==
    { i \in 1..Len(det.outcomes) : det.outcomes[i].trigger_count > 0 }

\* C36: a detector baselined once after construction or reset has at most
\* one outcome with trigger_count > 0; the lock is set exactly when there is
\* one and names it; every other outcome has trigger_count = 0
C36_OneTriggered ==
    mode = "detector" =>
        LET det == detectors[DetSlug]
        IN  /\ Cardinality(Triggered(det)) <= 1
            /\ (det.locked_outcome # NoOutcome) <=> (Triggered(det) # {})
            /\ \A i \in Triggered(det) :
                 det.outcomes[i].outcome_name = det.locked_outcome
            /\ \A i \in 1..Len(det.outcomes) :
                 det.outcomes[i].outcome_name # det.locked_outcome =>
                     det.outcomes[i].trigger_count = 0

\* the locked outcome has triggered twice while another tracked outcome
\* passes every gate and stays at trigger_count 0
C36_Witness ==
    /\ mode = "detector"
    /\ LET det == detectors[DetSlug]
       IN  /\ det.locked_outcome # NoOutcome
           /\ \E i, j \in 1..Len(det.outcomes) :
                /\ det.outcomes[i].outcome_name = det.locked_outcome
                /\ det.outcomes[i].trigger_count = 2
                /\ j # i
                /\ det.outcomes[j].trigger_count = 0
                /\ PassesGates(det.outcomes[j], cfg)

\* a ping has timed out on the open connection while the feed is meant to run
PingTimedOut == PingRuns /\ feed_task.ping = "timed_out"

\* the connection is gone and the task is on its way to a new one, or has
\* just tried one
Redialling ==
    /\ mode = "ws"
    /\ ws_should_run
    /\ \/ ~ws_open /\ feed_task.pos \in {"backoff", "await"}
       \/ last.op = "ws_connect"

\* C37: after a ping times out while the feed is meant to run, the stale
\* connection is eventually dropped and a new connection is tried
C37_StaleDropped == PingTimedOut ~> Redialling

\* the push-feed bot with no scale-in percentage above 50 and at least $1 to
\* spend in a window
ModestSchedule ==
    /\ mode = "ws"
    /\ \A k \in 1..Len(cfg.scale_in_pcts) : cfg.scale_in_pcts[k] <= 50
    /\ cfg.max_trade_size_usd >= OneDollar

\* the feed is stopped by the end of its window and by nothing else
StoppedByWindowEnd ==
    (ModestSchedule /\ ws_should_run /\ ~ws_should_run') =>
        last'.op = "window_end"

\* no iteration of run() finds the budget-exhaustion condition of lines
\* 531-534
NeverExhausted ==
    (ModestSchedule /\ last'.op \in {"window_start", "loop", "window_end"}) =>
        ~(was_in_window' /\ BelowFloor(budget_remaining'))

\* C38: with every scale-in percentage at most 50 and a window budget of $1
\* or more, at least $1 remains after any sequence of orders, and the
\* budget-exhaustion teardown of the push-feed bot is never reached
C38_FloorKept ==
    /\ [](ModestSchedule => ~BelowFloor(budget_remaining))
    /\ [][StoppedByWindowEnd /\ NeverExhausted]_vars

\* three orders of 50, 30 and 20 percent have been filled from $100 and $28
\* remain, with the feed still running
C38_Witness ==
    /\ ModestSchedule
    /\ ~cfg.dry_run
    /\ orders.spent = 72 * OneDollar
    /\ budget_remaining = 28 * OneDollar
    /\ ws_should_run

\* fewer than 60 updates since set_baseline: the baseline seed is still the
\* first entry of the history
SeedInWindow ==
    /\ mode = "outcome"
    /\ Os.baseline_price # NoPrice
    /\ ticks < HistoryMaxLen
    /\ last.op \in {"set_baseline", "update_price"}

\* C39: while the baseline seed is inside the 60-entry history, get_zscore
\* never returns the saturated +10 or -10: a history holding the baseline
\* and a current price more than 0.05 away has a deviation of at least 0.001
C39_NoSaturation ==
    SeedInWindow =>
        /\ Os.price_history[1] = Os.baseline_price
        /\ Abs(Os.current_price - Os.baseline_price) > 5 =>
               ~StdevBelowEps(Os.price_history)
        /\ get_zscore(Os) \notin {ZSaturated(1), ZSaturated(0 - 1)}

\* the flattest history that still holds the seed: the baseline 0.10 followed
\* by 0.60 fifty-nine times; the z-score comes from the division
C39_Witness ==
    /\ SeedInWindow
    /\ Len(Os.price_history) = HistoryMaxLen
    /\ Os.baseline_price = 10
    /\ \A k \in 2..HistoryMaxLen : Os.price_history[k] = 60
    /\ ~get_zscore(Os).none
    /\ get_zscore(Os) # ZSaturated(1)

=============================================================================
